---- MODULE Spec2Model ----
(***************************************************************************)
(* Model of the IRC relay door (doors/door_irc.c): the client registry,   *)
(* the participants of each client and their chat pipes, the broadcast    *)
(* (__chat_send), the participant session loop (participant_relay), the   *)
(* relay reader thread (client_relay) and module load/unload.             *)
(*                                                                         *)
(* Spec       : all the threads of the door running concurrently; its     *)
(*              two halves below are the ones explored exhaustively.      *)
(* SpecChat   : Spec while the module stays loaded (no unload_module).    *)
(* SpecQuiet  : SpecChat with nodes that type nothing and a network that  *)
(*              sends nothing to relay.                                   *)
(* SpecUnload : Spec with nodes that join, idle and leave but type        *)
(*              nothing, and a relay thread that relays nothing.          *)
(* FairUnload : SpecUnload plus weak fairness of the steps the scheduler  *)
(*              eventually runs (everything but user and network input    *)
(*              and the host's decision to unload).                       *)
(* SpecReader : the line reassembly of client_relay on a byte stream.     *)
(* SpecSend   : the relay thread's __chat_send over any attached set of   *)
(*              participants, some of whose pipes reject writes.          *)
(* SpecMsg    : handle_irc_msg on one message from the server, and the    *)
(*              broadcast it starts, over any attached set.               *)
(* SpecExec   : the value irc_client_exec returns, for any argument       *)
(*              string and any course of the loop of participant_relay.   *)
(* SpecLoad   : load_config on any sequence of configuration sections.    *)
(* SpecRaw    : handle_irc_msg on one message of any form the parser can  *)
(*              hand over, well formed or not.                            *)
(* SpecThread : bbs/thread.c: threads created by create_thread, running   *)
(*              thread_run and joined by __bbs_pthread_join.              *)
(* SpecRoute  : handle_irc_msg on one message of the routes other than    *)
(*              PRIVMSG and NOTICE, and the broadcast it starts.          *)
(***************************************************************************)
EXTENDS Integers, Sequences, FiniteSets, TLC

\* ------------------------------------------------------------------ sets

\* Local nodes (one thread each) that may run the door.
Sessions == {"s1", "s2"}

\* Client structures (one per configuration section).
Clients == {"c1"}

\* client->name of each client structure.
ClientName(c) == IF c = "c1" THEN "net1" ELSE "net2"

\* Names a node may ask for in "clientname,channel".
JoinNames == {"net1", "NET1", "nope"}

\* Channels a node may ask for / the network may address.
Channels == {"#a", "#b"}

\* The nodes for which NODE_IS_TDD holds: they get no timestamps.
Tdd == {"s2"}

\* The channel a node asks for. The channels are interchangeable, so the
\* first node asks for "#a" and the others for any channel.
ChannelsOf(s) == IF s = "s1" THEN {"#a"} ELSE Channels

NULL == "NULL"

\* Capacity of a chat pipe, in write() units.
MaxQueue == 2

\* sizeof(readbuf) - 1 of client_relay (IRC_MAX_MSG_LEN), scaled down.
ReadBufLen == 4

\* Longest byte stream the server sends.
MaxStream == 6

\* The bytes of a stream: two letters, carriage return, line feed.
CR == "CR"
LF == "LF"
NUL == "NUL"
Bytes == {"a", "b", CR, LF}

\* strcasecmp(a, b) == 0 on the names used here.
Fold(n) == IF n = "NET1" THEN "net1" ELSE IF n = "NET2" THEN "net2" ELSE n
StrCaseEq(a, b) == Fold(a) = Fold(b)

\* Threads created through bbs_pthread_create (the relay threads of clients).
Threads == {"t1", "t2"}

\* Threads that run __chat_send: the nodes and the relay reader of each client.
Senders == Sessions \cup Clients

\* ------------------------------------------------------------- variables

VARIABLES
    clients,      \* the RWLIST of clients, head first
    clientsLock,  \* thread holding the write lock of the clients list, or NULL
    unloading,    \* static int unloading
    cstate,       \* per client structure: "loaded" | "freed"
    conn,         \* per client: client->client: "new" | "up" | "down" | "destroyed"
    head,         \* per client: first participant of client->participants, or NULL
    plock,        \* per client: threads holding the read lock of client->participants
    pstate,       \* per node: its struct participant: "none" | "live" | "freed"
    pclient,      \* per node: participant->client
    pchan,        \* per node: participant->channel (NULL until irc_client_exec sets it)
    nxt,          \* per node: participant->entry.next
    queue,        \* per node: content of the chat pipe
    wfd,          \* per node: chatpipe[1]: "open" | "closed" | "broken" (write() fails)
    rfd,          \* per node: chatpipe[0]: "open" | "closed"
    pc,           \* per node: position of its thread in irc_client_exec
    arg,          \* per node: the channel argument of irc_client_exec
    bc,           \* per sender thread: the __chat_send call in progress
    rpc,          \* per client: position of its relay thread
    cancelReq,    \* per client: pthread_cancel was called on its relay thread
    treg,         \* per client: thread_list entry of its relay thread
    upc,          \* position of unload_module
    ucl,          \* client unload_module is tearing down
    spc,          \* position of start_clients
    stodo,        \* clients start_clients has still to visit
    crashed,      \* the process died (segmentation fault)
    detachCnt,    \* per node: times its participant was removed from a list
    freeCnt,      \* per node: times its participant was freed
    readbuf,      \* client_relay: readbuf[], 0-based index i is readbuf[i + 1]
    mybuf,        \* client_relay: mybuf - readbuf
    mylen,        \* client_relay: mylen
    start,        \* client_relay: start - readbuf
    res,          \* client_relay: res
    prevbuf,      \* client_relay: prevbuf - readbuf
    prevlen,      \* client_relay: prevlen
    lpc,          \* client_relay: position in the loop
    stream,       \* bytes the server has sent and the reader has not read yet
    stream0,      \* all the bytes the server sends
    dispatched,   \* the lines handed to irc_parse_msg, in order
    first,        \* the number of bytes the first irc_read returned, 0 before it
    msg,          \* client_relay: the irc_msg handed to handle_irc_msg
    relayed,      \* the channel and text of the relay thread's relay_to_local call
    outbox,       \* what handle_irc_msg has sent to the server, in order
    xargs,        \* irc_client_exec: the argument string
    xpc,          \* irc_client_exec / participant_relay: position
    xres,         \* participant_relay: res
    xret,         \* irc_client_exec: the value returned
    xwhy,         \* why the door call ended
    sections,     \* load_config: the section names of door_irc.conf, in file order
    section,      \* load_config: how many sections bbs_config_walk has returned
    ldpc,         \* position of load_config
    loaded,       \* load_config: client->name of the clients inserted, head first
    cend,         \* per thread: where create_thread returned
    cret,         \* per thread: the value create_thread returned
    tdet,         \* per thread: the detached argument of create_thread
    tpos,         \* per thread: position of the thread in thread_run
    tentry,       \* per thread: its thread_list entry
    jpc,          \* per thread: position of its joiner in __bbs_pthread_join
    jret,         \* per thread: the value __bbs_pthread_join returned
    jwarn         \* per thread: the joiner has logged "not currently waiting"

regVars  == <<clients, clientsLock, unloading, cstate, conn, head, plock>>
partVars == <<pstate, pclient, pchan, nxt, queue, wfd, rfd>>
sessVars == <<pc, arg>>
rdrVars  == <<rpc, cancelReq, treg>>
modVars  == <<upc, ucl, spc, stodo>>
ghostVars == <<crashed, detachCnt, freeCnt>>
msgVars  == <<msg, relayed, outbox>>
execVars == <<xargs, xpc, xres, xret, xwhy>>
cfgVars  == <<sections, section, ldpc, loaded>>
thrVars  == <<cend, cret, tdet, tpos, tentry, jpc, jret, jwarn>>
lineVars == <<readbuf, mybuf, mylen, start, res, prevbuf, prevlen, lpc, stream,
             stream0, dispatched, first, msgVars, execVars, cfgVars, thrVars>>

vars == <<regVars, partVars, sessVars, bc, rdrVars, modVars, ghostVars, lineVars>>

\* ------------------------------------------------------------------ init

NoBcast == [st |-> "off", client |-> NULL, snd |-> NULL, chan |-> NULL,
            relay |-> FALSE, sent |-> FALSE, cur |-> NULL, ph |-> "visit",
            res |-> "uninit"]

\* State after load_config and bbs_register_door: every section is in the
\* list with a fresh, unconnected irc_client; start_clients is about to run,
\* at once or from the startup callback ("pending" stands for both).
DoorInit ==
    /\ clients = <<"c1">>
    /\ clientsLock = NULL
    /\ unloading = FALSE
    /\ cstate = [c \in Clients |-> "loaded"]
    /\ conn = [c \in Clients |-> "new"]
    /\ head = [c \in Clients |-> NULL]
    /\ plock = [c \in Clients |-> {}]
    /\ pstate = [s \in Sessions |-> "none"]
    /\ pclient = [s \in Sessions |-> NULL]
    /\ pchan = [s \in Sessions |-> NULL]
    /\ nxt = [s \in Sessions |-> NULL]
    /\ queue = [s \in Sessions |-> <<>>]
    /\ wfd = [s \in Sessions |-> "closed"]
    /\ rfd = [s \in Sessions |-> "closed"]
    /\ pc = [s \in Sessions |-> "idle"]
    /\ arg = [s \in Sessions |-> NULL]
    /\ bc = [t \in Senders |-> NoBcast]
    /\ rpc = [c \in Clients |-> "none"]
    /\ cancelReq = [c \in Clients |-> FALSE]
    /\ treg = [c \in Clients |-> "none"]
    /\ upc = "idle"
    /\ ucl = NULL
    /\ stodo = <<>>
    /\ crashed = FALSE
    /\ detachCnt = [s \in Sessions |-> 0]
    /\ freeCnt = [s \in Sessions |-> 0]

\* ------------------------------------------------------------- helpers

\* The participants of client c, head first (RWLIST_TRAVERSE from the head).
RECURSIVE Chain(_, _)
Chain(p, n) == IF p = NULL \/ n = 0 THEN <<>> ELSE <<p>> \o Chain(nxt[p], n - 1)
ListOf(c) == Chain(head[c], Cardinality(Sessions))
Members(c) == {ListOf(c)[i] : i \in 1..Len(ListOf(c))}

\* The clients list without client c (RWLIST_REMOVE_CURRENT).
RemoveClient(c) == SelectSeq(clients, LAMBDA x : x # c)

\* RWLIST_WRLOCK(&clients) by thread t returns. The lock is free, or t itself
\* is the writer: pthread_rwlock_wrlock then fails with EDEADLK ("may
\* deadlock" in POSIX), the macro ignores the result and t goes on.
CanWrLock(t) == clientsLock = NULL \/ clientsLock = t

\* The client the traversal of join_client stops at, NULL if it runs off the
\* end of the list.
FindClient(name) ==
    LET hits == {i \in 1..Len(clients) : StrCaseEq(ClientName(clients[i]), name)}
    IN IF hits = {} THEN NULL
       ELSE clients[CHOOSE i \in hits : \A j \in hits : i <= j]

\* ---------------------------------------------------------- start_clients

\* RWLIST_WRLOCK(&clients) of start_clients, called from load_module at once
\* or later from the startup callback.
StartLock ==
    /\ ~crashed
    /\ spc = "pending"
    /\ CanWrLock("start")
    /\ clientsLock' = "start"
    /\ spc' = "run"
    /\ stodo' = clients
    /\ UNCHANGED <<clients, unloading, cstate, conn, head, plock>>
    /\ UNCHANGED <<partVars, sessVars, bc, rdrVars, upc, ucl, ghostVars, lineVars>>

\* The traversal moves on from the client at the head of stodo; after the
\* last client RWLIST_UNLOCK(&clients) and return 0 (lines 177-182).
StartAdvance ==
    /\ stodo' = Tail(stodo)
    /\ IF Tail(stodo) = <<>>
       THEN clientsLock' = NULL /\ spc' = "done"
       ELSE UNCHANGED <<clientsLock, spc>>

\* StartConnectFail without RWLIST_REMOVE_CURRENT.
StartConnectFailKeep ==
    /\ ~crashed
    /\ spc = "run" /\ stodo # <<>>
    /\ LET c == Head(stodo) IN
        /\ conn' = [conn EXCEPT ![c] = "destroyed"]
        /\ cstate' = [cstate EXCEPT ![c] = "freed"]
    /\ StartAdvance
    /\ UNCHANGED <<clients, unloading, head, plock>>
    /\ UNCHANGED <<partVars, sessVars, bc, rdrVars, upc, ucl, ghostVars, lineVars>>

\* One client of the traversal: connect or login failed, the client is
\* destroyed, removed from the list and freed.
StartConnectFail ==
    /\ ~crashed
    /\ spc = "run" /\ stodo # <<>>
    /\ LET c == Head(stodo) IN
        /\ conn' = [conn EXCEPT ![c] = "destroyed"]
        /\ clients' = RemoveClient(c)
        /\ cstate' = [cstate EXCEPT ![c] = "freed"]
    /\ StartAdvance
    /\ UNCHANGED <<unloading, head, plock>>
    /\ UNCHANGED <<partVars, sessVars, bc, rdrVars, upc, ucl, ghostVars, lineVars>>

\* One client of the traversal: connected and logged in, and the relay
\* thread is created (bbs_pthread_create returns 0).
StartConnectOk ==
    /\ ~crashed
    /\ spc = "run" /\ stodo # <<>>
    /\ LET c == Head(stodo) IN
        /\ conn' = [conn EXCEPT ![c] = "up"]
        /\ rpc' = [rpc EXCEPT ![c] = "created"]
    /\ StartAdvance
    /\ UNCHANGED <<clients, unloading, cstate, head, plock>>
    /\ UNCHANGED <<partVars, sessVars, bc, cancelReq, treg, upc, ucl, ghostVars, lineVars>>

\* One client of the traversal: connected, but bbs_pthread_create fails and
\* start_clients returns -1 from inside the traversal, the list still locked.
StartThreadFail ==
    /\ ~crashed
    /\ spc = "run" /\ stodo # <<>>
    /\ conn' = [conn EXCEPT ![Head(stodo)] = "up"]
    /\ spc' = "failed"
    /\ stodo' = <<>>
    /\ UNCHANGED <<clients, clientsLock, unloading, cstate, head, plock>>
    /\ UNCHANGED <<partVars, sessVars, bc, rdrVars, upc, ucl, ghostVars, lineVars>>

\* ------------------------------------------------- join_client / leave_client

\* irc_client_exec, no client of that name: join_client returns NULL at
\* line 231, the clients list still locked, and irc_client_exec returns 0.
JoinNotFound(s) ==
    /\ ~crashed
    /\ pc[s] = "idle"
    /\ CanWrLock(s)
    /\ \E name \in JoinNames :
        /\ FindClient(name) = NULL
        /\ clientsLock' = s
    /\ UNCHANGED <<clients, unloading, cstate, conn, head, plock>>
    /\ UNCHANGED <<partVars, pc, arg, bc, rdrVars, modVars, ghostVars, lineVars>>

\* join_client finds the client but calloc or pipe fails: unlock, return
\* NULL, and irc_client_exec returns 0.
JoinNoMem(s) ==
    /\ ~crashed
    /\ pc[s] = "idle"
    /\ CanWrLock(s)
    /\ \E name \in JoinNames :
        /\ FindClient(name) # NULL
        /\ clientsLock' = NULL
    /\ UNCHANGED <<clients, unloading, cstate, conn, head, plock>>
    /\ UNCHANGED <<partVars, pc, arg, bc, rdrVars, modVars, ghostVars, lineVars>>

\* join_client succeeds: a new participant with a new pipe is inserted at the
\* head of the client's participants, under the clients lock alone.
JoinOk(s) ==
    /\ ~crashed
    /\ pc[s] = "idle"
    /\ CanWrLock(s)
    /\ \E name \in JoinNames, ch \in ChannelsOf(s) :
        LET c == FindClient(name) IN
        /\ c # NULL
        /\ pstate' = [pstate EXCEPT ![s] = "live"]
        /\ pclient' = [pclient EXCEPT ![s] = c]
        /\ pchan' = [pchan EXCEPT ![s] = NULL]
        /\ queue' = [queue EXCEPT ![s] = <<>>]
        /\ wfd' = [wfd EXCEPT ![s] = "open"]
        /\ rfd' = [rfd EXCEPT ![s] = "open"]
        /\ nxt' = [nxt EXCEPT ![s] = head[c]]
        /\ head' = [head EXCEPT ![c] = s]
        /\ arg' = [arg EXCEPT ![s] = ch]
    /\ clientsLock' = NULL
    /\ pc' = [pc EXCEPT ![s] = "setchan"]
    /\ detachCnt' = [detachCnt EXCEPT ![s] = 0]
    /\ freeCnt' = [freeCnt EXCEPT ![s] = 0]
    /\ UNCHANGED <<clients, unloading, cstate, conn, plock>>
    /\ UNCHANGED <<bc, rdrVars, modVars, crashed, lineVars>>


\* p->channel = channel in irc_client_exec, after join_client has returned.
SetChannel(s) ==
    /\ ~crashed
    /\ pc[s] = "setchan"
    /\ pchan' = [pchan EXCEPT ![s] = arg[s]]
    /\ pc' = [pc EXCEPT ![s] = "hello"]
    /\ UNCHANGED <<pstate, pclient, nxt, queue, wfd, rfd>>
    /\ UNCHANGED <<regVars, arg, bc, rdrVars, modVars, ghostVars, lineVars>>

\* leave_client, lines 190-197: lock the clients list; when the module is
\* unloading unlock, free the participant and return.
LeaveLock(s) ==
    /\ ~crashed
    /\ pc[s] = "leave"
    /\ CanWrLock(s)
    /\ IF unloading
       THEN /\ clientsLock' = NULL
            /\ pstate' = [pstate EXCEPT ![s] = "freed"]
            /\ freeCnt' = [freeCnt EXCEPT ![s] = @ + 1]
            /\ pc' = [pc EXCEPT ![s] = "idle"]
            /\ arg' = [arg EXCEPT ![s] = NULL]
       ELSE /\ clientsLock' = s
            /\ pc' = [pc EXCEPT ![s] = "detach"]
            /\ UNCHANGED <<pstate, freeCnt, arg>>
    /\ UNCHANGED <<clients, unloading, cstate, conn, head, plock>>
    /\ UNCHANGED <<pclient, pchan, nxt, queue, wfd, rfd>>
    /\ UNCHANGED <<bc, rdrVars, modVars, crashed, detachCnt, lineVars>>

\* leave_client, lines 198-215: write-lock the client's participants, remove
\* the participant, close both ends of its pipe (what it held is gone), free
\* it (no thread refers to it any more: its fields are gone too), unlock both
\* lists.
LeaveDetach(s) ==
    LET c == pclient[s]
        found == s \in Members(c)
        prev == {q \in Sessions : nxt[q] = s /\ q \in Members(c)}
    IN
    /\ ~crashed
    /\ pc[s] = "detach"
    /\ plock[c] = {}
    /\ IF found
       THEN /\ head' = [head EXCEPT ![c] = IF @ = s THEN nxt[s] ELSE @]
            /\ nxt' = [q \in Sessions |->
                         IF q = s THEN NULL
                         ELSE IF q \in prev THEN nxt[s] ELSE nxt[q]]
            /\ wfd' = [wfd EXCEPT ![s] = "closed"]
            /\ rfd' = [rfd EXCEPT ![s] = "closed"]
            /\ queue' = [queue EXCEPT ![s] = <<>>]
            /\ pstate' = [pstate EXCEPT ![s] = "freed"]
            /\ pclient' = [pclient EXCEPT ![s] = NULL]
            /\ pchan' = [pchan EXCEPT ![s] = NULL]
            /\ detachCnt' = [detachCnt EXCEPT ![s] = @ + 1]
            /\ freeCnt' = [freeCnt EXCEPT ![s] = @ + 1]
       ELSE UNCHANGED <<head, nxt, wfd, rfd, queue, pstate, pclient, pchan, detachCnt,
                        freeCnt>>
    /\ clientsLock' = NULL
    /\ pc' = [pc EXCEPT ![s] = "idle"]
    /\ arg' = [arg EXCEPT ![s] = NULL]
    /\ UNCHANGED <<clients, unloading, cstate, conn, plock>>
    /\ UNCHANGED <<bc, rdrVars, modVars, crashed, lineVars>>

\* ------------------------------------------------------------ __chat_send

\* One write() into a chat pipe: what is written, for which sender and channel.
Item(part, t) == [part |-> part, snd |-> bc[t].snd, chan |-> bc[t].chan]

\* Passes without the sender check of line 509.
PassesAnySender(t, p) ==
    bc[t].chan = "" \/ pchan[p] = bc[t].chan

\* The participant passes the sender and channel filters (lines 509-515).
Passes(t, p) ==
    /\ p # bc[t].snd
    /\ bc[t].chan = "" \/ pchan[p] = bc[t].chan

\* Thread t is about to call write() on a chat pipe.
AtWrite(t) ==
    /\ bc[t].st = "go" /\ bc[t].cur # NULL
    /\ \/ bc[t].ph = "msg"
       \/ Passes(t, bc[t].cur) /\ bc[t].cur \notin Tdd

\* BBegin without the irc_client_msg call of line 501.
BBeginNoSend(t, c, snd, ch, relay) ==
    /\ plock' = [plock EXCEPT ![c] = @ \cup {t}]
    /\ bc' = [bc EXCEPT ![t] = [st |-> "go", client |-> c, snd |-> snd, chan |-> ch,
                                relay |-> relay, sent |-> FALSE, cur |-> head[c],
                                ph |-> "visit", res |-> "uninit"]]

\* Lines 499-503: read-lock the client's participants, send the text to IRC
\* when dorelay (sent: irc_client_msg has been called), start the traversal
\* at the head of the list.
BBegin(t, c, snd, ch, relay) ==
    /\ plock' = [plock EXCEPT ![c] = @ \cup {t}]
    /\ bc' = [bc EXCEPT ![t] = [st |-> "go", client |-> c, snd |-> snd, chan |-> ch,
                                relay |-> relay, sent |-> relay, cur |-> head[c],
                                ph |-> "visit", res |-> "uninit"]]

\* Lines 509-519 for the participant under the cursor: the two filters, then
\* the write of the timestamp unless the node is a TDD. res is not
\* initialized: for a TDD visited first its value is arbitrary.
BVisit(t) ==
    LET b == bc[t]
        p == b.cur
        adv(r) == [b EXCEPT !.cur = nxt[p], !.ph = "visit", !.res = r]
    IN
    /\ b.st = "go" /\ p # NULL /\ b.ph = "visit"
    /\ \/ /\ p = b.snd
          /\ bc' = [bc EXCEPT ![t] = adv(b.res)]
          /\ UNCHANGED <<queue, crashed>>
       \/ /\ p # b.snd /\ b.chan # "" /\ pchan[p] = NULL
          /\ crashed' = TRUE       \* strcmp(NULL, channel)
          /\ UNCHANGED <<bc, queue>>
       \/ /\ p # b.snd /\ b.chan # "" /\ pchan[p] \notin {NULL, b.chan}
          /\ bc' = [bc EXCEPT ![t] = adv(b.res)]
          /\ UNCHANGED <<queue, crashed>>
       \/ /\ Passes(t, p) /\ p \notin Tdd
          /\ wfd[p] = "open" /\ Len(queue[p]) < MaxQueue
          /\ queue' = [queue EXCEPT ![p] = Append(@, Item("ts", t))]
          /\ bc' = [bc EXCEPT ![t] = [b EXCEPT !.ph = "msg", !.res = "pos"]]
          /\ UNCHANGED crashed
       \/ /\ Passes(t, p) /\ p \notin Tdd
          /\ wfd[p] # "open"
          /\ bc' = [bc EXCEPT ![t] = adv("neg")]
          /\ UNCHANGED <<queue, crashed>>
       \/ /\ Passes(t, p) /\ p \in Tdd
          /\ \E r \in (IF b.res = "uninit" THEN {"pos", "neg"} ELSE {b.res}) :
                bc' = [bc EXCEPT ![t] = IF r = "pos"
                                        THEN [b EXCEPT !.ph = "msg", !.res = r]
                                        ELSE adv(r)]
          /\ UNCHANGED <<queue, crashed>>

\* BWrite pushing the text at the front of the pipe.
BWriteFront(t) ==
    LET b == bc[t]
        p == b.cur
        adv(r) == [b EXCEPT !.cur = nxt[p], !.ph = "visit", !.res = r]
    IN
    /\ b.st = "go" /\ p # NULL /\ b.ph = "msg"
    /\ \/ /\ wfd[p] = "open" /\ Len(queue[p]) < MaxQueue
          /\ queue' = [queue EXCEPT ![p] = <<Item("txt", t)>> \o @]
          /\ bc' = [bc EXCEPT ![t] = adv("pos")]
       \/ /\ wfd[p] # "open"
          /\ bc' = [bc EXCEPT ![t] = adv("neg")]
          /\ UNCHANGED queue

\* Lines 519-525: the write of the text after res > 0, then the next participant.
BWrite(t) ==
    LET b == bc[t]
        p == b.cur
        adv(r) == [b EXCEPT !.cur = nxt[p], !.ph = "visit", !.res = r]
    IN
    /\ b.st = "go" /\ p # NULL /\ b.ph = "msg"
    /\ \/ /\ wfd[p] = "open" /\ Len(queue[p]) < MaxQueue
          /\ queue' = [queue EXCEPT ![p] = Append(@, Item("txt", t))]
          /\ bc' = [bc EXCEPT ![t] = adv("pos")]
       \/ /\ wfd[p] # "open"
          /\ bc' = [bc EXCEPT ![t] = adv("neg")]
          /\ UNCHANGED queue

\* Line 527: end of the traversal, RWLIST_UNLOCK(&client->participants).
\* BEnd returning with the read lock of the participants still held.
BEndKeepsLock(t) ==
    /\ bc[t].st = "go" /\ bc[t].cur = NULL
    /\ plock' = plock
    /\ bc' = [bc EXCEPT ![t] = NoBcast]

BEnd(t) ==
    /\ bc[t].st = "go" /\ bc[t].cur = NULL
    /\ plock' = [plock EXCEPT ![bc[t].client] = @ \ {t}]
    /\ bc' = [bc EXCEPT ![t] = NoBcast]

\* ------------------------------------------------------ participant_relay

\* chat_send of a node, "has joined" (line 566) or "has left" (line 633),
\* up to the read lock of the participants.
SessBcastBegin(s) ==
    /\ ~crashed
    /\ pc[s] \in {"hello", "bye"} /\ bc[s].st = "off"
    /\ BBegin(s, pclient[s], NULL, arg[s], TRUE)
    /\ UNCHANGED <<clients, clientsLock, unloading, cstate, conn, head>>
    /\ UNCHANGED <<partVars, sessVars, rdrVars, modVars, crashed, detachCnt, freeCnt, lineVars>>

SessBcastVisit(s) ==
    /\ ~crashed
    /\ BVisit(s)
    /\ UNCHANGED <<pstate, pclient, pchan, nxt, wfd, rfd>>
    /\ UNCHANGED <<regVars, sessVars, rdrVars, modVars, detachCnt, freeCnt, lineVars>>

SessBcastWrite(s) ==
    /\ ~crashed
    /\ BWrite(s)
    /\ UNCHANGED <<pstate, pclient, pchan, nxt, wfd, rfd>>
    /\ UNCHANGED <<regVars, sessVars, rdrVars, modVars, crashed, detachCnt, freeCnt, lineVars>>

\* chat_send returns: into the loop after "has joined" or a typed line, to
\* leave_client (line 665) after "has left".
SessBcastEnd(s) ==
    /\ ~crashed
    /\ BEnd(s)
    /\ pc' = [pc EXCEPT ![s] = IF @ = "bye" THEN "leave" ELSE "loop"]
    /\ UNCHANGED <<clients, clientsLock, unloading, cstate, conn, head>>
    /\ UNCHANGED <<partVars, arg, rdrVars, modVars, ghostVars, lineVars>>



\* bbs_poll2 returns 1 and the user completes a line that is not /quit:
\* chat_send of the line with sender = the node's participant (line 606), up
\* to the read lock of the participants.
SessType(s) ==
    /\ ~crashed
    /\ pc[s] = "loop"
    /\ BBegin(s, pclient[s], s, arg[s], TRUE)
    /\ pc' = [pc EXCEPT ![s] = "say"]
    /\ UNCHANGED <<clients, clientsLock, unloading, cstate, conn, head>>
    /\ UNCHANGED <<partVars, arg, rdrVars, modVars, crashed, detachCnt, freeCnt,
                   lineVars>>

\* The loop breaks on the terminal side (/quit, a failed or timed out read of
\* the node, bbs_poll2 < 0), then chat_send of "has left" (line 633) up to
\* the read lock of the participants.
SessQuit(s) ==
    /\ ~crashed
    /\ pc[s] = "loop"
    /\ BBegin(s, pclient[s], NULL, arg[s], TRUE)
    /\ pc' = [pc EXCEPT ![s] = "bye"]
    /\ UNCHANGED <<clients, clientsLock, unloading, cstate, conn, head>>
    /\ UNCHANGED <<partVars, arg, rdrVars, modVars, crashed, detachCnt, freeCnt,
                   lineVars>>

\* bbs_poll2 returns 2 and read() returns what is in the pipe (buf holds
\* more than the pipe does here), which is written to the terminal; the loop
\* breaks when that write fails.
SessPipeRead(s) ==
    /\ ~crashed
    /\ pc[s] = "loop"
    /\ queue[s] # <<>>
    /\ queue' = [queue EXCEPT ![s] = <<>>]
    /\ \E ok \in BOOLEAN : pc' = [pc EXCEPT ![s] = IF ok THEN "loop" ELSE "bye"]
    /\ UNCHANGED <<pstate, pclient, pchan, nxt, wfd, rfd>>
    /\ UNCHANGED <<regVars, arg, bc, rdrVars, modVars, ghostVars, lineVars>>

\* bbs_poll2 returns 2 and read() returns 0: the pipe is empty and its write
\* end is closed. The loop breaks.
SessPipeEof(s) ==
    /\ ~crashed
    /\ pc[s] = "loop"
    /\ queue[s] = <<>> /\ wfd[s] = "closed"
    /\ pc' = [pc EXCEPT ![s] = "bye"]
    /\ UNCHANGED <<regVars, partVars, arg, bc, rdrVars, modVars, ghostVars, lineVars>>

\* ------------------------------------------- relay thread (client_relay)

\* thread_run: thread_register adds the thread_list entry of the new thread.
RdrRegister(c) ==
    /\ ~crashed
    /\ rpc[c] = "created"
    /\ rpc' = [rpc EXCEPT ![c] = "begin"]
    /\ treg' = [treg EXCEPT ![c] = "registered"]
    /\ UNCHANGED <<regVars, partVars, sessVars, bc, cancelReq, modVars, ghostVars, lineVars>>

\* client_relay, lines 389-399: reads client->name and client->log, opens the
\* log file, enters the loop.
RdrBegin(c) ==
    /\ ~crashed
    /\ rpc[c] = "begin"
    /\ rpc' = [rpc EXCEPT ![c] = "poll"]
    /\ UNCHANGED <<regVars, partVars, sessVars, bc, cancelReq, treg, modVars,
                   crashed, detachCnt, freeCnt, lineVars>>

\* Lines 391-396: the log file cannot be opened, client_relay returns; the
\* cleanup handler marks the thread_list entry as waiting to be joined.
RdrLogFail(c) ==
    /\ ~crashed
    /\ rpc[c] = "begin"
    /\ rpc' = [rpc EXCEPT ![c] = "exited"]
    /\ treg' = [treg EXCEPT ![c] = "waitjoin"]
    /\ UNCHANGED <<regVars, partVars, sessVars, bc, cancelReq, modVars,
                   crashed, detachCnt, freeCnt, lineVars>>

\* irc_poll and irc_read deliver a line that handle_irc_msg relays with
\* relay_to_local: to a channel, or to every channel (NICK, channel NULL).
\* The step ends inside __chat_send, the participants read-locked.
RdrRelay(c) ==
    /\ ~crashed
    /\ rpc[c] = "poll" /\ ~cancelReq[c]
    /\ conn[c] = "up"
    /\ \E ch \in Channels \cup {""} : BBegin(c, c, NULL, ch, FALSE)
    /\ rpc' = [rpc EXCEPT ![c] = "relay"]
    /\ UNCHANGED <<clients, clientsLock, unloading, cstate, conn, head>>
    /\ UNCHANGED <<partVars, sessVars, cancelReq, treg, modVars,
                   crashed, detachCnt, freeCnt, lineVars>>

RdrBcastVisit(c) ==
    /\ ~crashed
    /\ rpc[c] = "relay"
    /\ ~(cancelReq[c] /\ AtWrite(c))
    /\ BVisit(c)
    /\ UNCHANGED <<pstate, pclient, pchan, nxt, wfd, rfd>>
    /\ UNCHANGED <<regVars, sessVars, rdrVars, modVars, detachCnt, freeCnt, lineVars>>

RdrBcastWrite(c) ==
    /\ ~crashed
    /\ rpc[c] = "relay"
    /\ ~cancelReq[c]
    /\ BWrite(c)
    /\ UNCHANGED <<pstate, pclient, pchan, nxt, wfd, rfd>>
    /\ UNCHANGED <<regVars, sessVars, rdrVars, modVars, crashed, detachCnt, freeCnt, lineVars>>

\* __chat_send returns and the loop goes back to irc_poll.
RdrBcastEnd(c) ==
    /\ ~crashed
    /\ rpc[c] = "relay"
    /\ BEnd(c)
    /\ rpc' = [rpc EXCEPT ![c] = "poll"]
    /\ UNCHANGED <<clients, clientsLock, unloading, cstate, conn, head>>
    /\ UNCHANGED <<partVars, sessVars, cancelReq, treg, modVars, ghostVars, lineVars>>

\* Lines 426-436: the server closes the connection, irc_poll or irc_read
\* returns <= 0, the loop breaks and the thread exits.
RdrDisconnect(c) ==
    /\ ~crashed
    /\ rpc[c] = "poll" /\ ~cancelReq[c]
    /\ conn[c] = "up"
    /\ conn' = [conn EXCEPT ![c] = "down"]
    /\ rpc' = [rpc EXCEPT ![c] = "exited"]
    /\ treg' = [treg EXCEPT ![c] = "waitjoin"]
    /\ UNCHANGED <<clients, clientsLock, unloading, cstate, head, plock>>
    /\ UNCHANGED <<partVars, sessVars, bc, cancelReq, modVars, ghostVars, lineVars>>

\* Lines 426-436 on a connection irc_client_destroy has released: the poll
\* or read fails and the thread exits.
RdrPollDestroyed(c) ==
    /\ ~crashed
    /\ rpc[c] = "poll" /\ ~cancelReq[c]
    /\ conn[c] = "destroyed"
    /\ rpc' = [rpc EXCEPT ![c] = "exited"]
    /\ treg' = [treg EXCEPT ![c] = "waitjoin"]
    /\ UNCHANGED <<regVars, partVars, sessVars, bc, cancelReq, modVars,
                   crashed, detachCnt, freeCnt, lineVars>>

\* A pending pthread_cancel acts at a cancellation point (poll, read,
\* write): the thread ends there, with whatever lock it holds, and the
\* cleanup handler thread_unregister runs.
RdrCancelled(c) ==
    /\ ~crashed
    /\ cancelReq[c]
    /\ rpc[c] = "poll" \/ (rpc[c] = "relay" /\ AtWrite(c))
    /\ rpc' = [rpc EXCEPT ![c] = "exited"]
    /\ treg' = [treg EXCEPT ![c] = "waitjoin"]
    /\ bc' = [bc EXCEPT ![c] = NoBcast]
    /\ UNCHANGED <<regVars, partVars, sessVars, cancelReq, modVars, ghostVars, lineVars>>

\* ------------------------------------------------------------ unload_module

\* The host calls unload_module. It unloads the module only after its
\* startup, start_clients included, has completed.
UnloadCall ==
    /\ ~crashed
    /\ upc = "idle" /\ spc = "done"
    /\ upc' = "lock"
    /\ UNCHANGED <<regVars, partVars, sessVars, bc, rdrVars, ucl, spc, stodo,
                   ghostVars, lineVars>>

\* unload_module setting unloading without taking the clients lock.
UnloadLockNone ==
    /\ ~crashed
    /\ upc = "lock"
    /\ unloading' = TRUE
    /\ upc' = "next"
    /\ UNCHANGED <<clients, clientsLock, cstate, conn, head, plock>>
    /\ UNCHANGED <<partVars, sessVars, bc, rdrVars, ucl, spc, stodo, ghostVars, lineVars>>

\* Lines 694-695: RWLIST_WRLOCK(&clients) returns and unloading is set.
UnloadLock ==
    /\ ~crashed
    /\ upc = "lock"
    /\ CanWrLock("unload")
    /\ clientsLock' = "unload"
    /\ unloading' = TRUE
    /\ upc' = "next"
    /\ UNCHANGED <<clients, cstate, conn, head, plock>>
    /\ UNCHANGED <<partVars, sessVars, bc, rdrVars, ucl, spc, stodo, ghostVars, lineVars>>

\* Lines 697-698: remove the head of the clients list and destroy its
\* irc_client.
UnloadNext ==
    /\ ~crashed
    /\ upc = "next" /\ clients # <<>>
    /\ ucl' = Head(clients)
    /\ clients' = Tail(clients)
    /\ conn' = [conn EXCEPT ![Head(clients)] = "destroyed"]
    /\ upc' = "sever"
    /\ UNCHANGED <<clientsLock, unloading, cstate, head, plock>>
    /\ UNCHANGED <<partVars, sessVars, bc, rdrVars, spc, stodo, ghostVars, lineVars>>

\* Lines 700-705: remove the head of the client's participants and close the
\* write end of its pipe. The participants lock is not taken.
UnloadSever ==
    LET p == head[ucl] IN
    /\ ~crashed
    /\ upc = "sever" /\ p # NULL
    /\ head' = [head EXCEPT ![ucl] = nxt[p]]
    /\ nxt' = [nxt EXCEPT ![p] = NULL]
    /\ wfd' = [wfd EXCEPT ![p] = "closed"]
    /\ detachCnt' = [detachCnt EXCEPT ![p] = @ + 1]
    /\ UNCHANGED <<clients, clientsLock, unloading, cstate, conn, plock>>
    /\ UNCHANGED <<pstate, pclient, pchan, queue, rfd>>
    /\ UNCHANGED <<sessVars, bc, rdrVars, modVars, crashed, freeCnt, lineVars>>

\* Line 706: pthread_cancel(client->thread).
UnloadCancel ==
    /\ ~crashed
    /\ upc = "sever" /\ head[ucl] = NULL
    /\ cancelReq' = [cancelReq EXCEPT ![ucl] = TRUE]
    /\ upc' = "join"
    /\ UNCHANGED <<regVars, partVars, sessVars, bc, rpc, treg, ucl, spc, stodo,
                   ghostVars, lineVars>>

\* Lines 707-711: bbs_pthread_join returns once the thread has exited and
\* removes its thread_list entry; then the client is freed.
UnloadJoin ==
    /\ ~crashed
    /\ upc = "join"
    /\ treg[ucl] # "none" /\ rpc[ucl] = "exited"
    /\ treg' = [treg EXCEPT ![ucl] = "removed"]
    /\ cstate' = [cstate EXCEPT ![ucl] = "freed"]
    /\ upc' = "next"
    /\ ucl' = NULL
    /\ UNCHANGED <<clients, clientsLock, unloading, conn, head, plock>>
    /\ UNCHANGED <<partVars, sessVars, bc, rpc, cancelReq, spc, stodo, ghostVars, lineVars>>

\* Lines 707-711 when the thread has no thread_list entry yet (thread.c:267):
\* bbs_pthread_join returns -1 at once, and the client is freed.
UnloadJoinUnregistered ==
    /\ ~crashed
    /\ upc = "join"
    /\ treg[ucl] = "none"
    /\ cstate' = [cstate EXCEPT ![ucl] = "freed"]
    /\ upc' = "next"
    /\ ucl' = NULL
    /\ UNCHANGED <<clients, clientsLock, unloading, conn, head, plock>>
    /\ UNCHANGED <<partVars, sessVars, bc, rdrVars, spc, stodo, ghostVars, lineVars>>

\* Line 713: the list is empty, RWLIST_UNLOCK(&clients).
UnloadUnlock ==
    /\ ~crashed
    /\ upc = "next" /\ clients = <<>>
    /\ clientsLock' = NULL
    /\ upc' = "done"
    /\ UNCHANGED <<clients, unloading, cstate, conn, head, plock>>
    /\ UNCHANGED <<partVars, sessVars, bc, rdrVars, ucl, spc, stodo, ghostVars, lineVars>>

\* Client c has been released while threads still refer to it: its
\* connection destroyed (irc_client_destroy) or the structure freed.
Released(c) == c \in Clients /\ (cstate[c] = "freed" \/ conn[c] = "destroyed")

\* The next access of node s is to released memory: it enters __chat_send or
\* locks the participants of a released client, or it is inside __chat_send
\* on a freed client or at a freed participant.
SessFaults(s) ==
    \/ pc[s] \in {"hello", "bye", "loop"} /\ bc[s].st = "off" /\ Released(pclient[s])
    \/ pc[s] = "detach" /\ cstate[pclient[s]] = "freed"
    \/ /\ bc[s].st = "go"
       /\ \/ cstate[bc[s].client] = "freed"
          \/ bc[s].cur # NULL /\ pstate[bc[s].cur] # "live"

\* The next access of the relay thread of client c is to released memory.
RdrFaults(c) ==
    \/ rpc[c] = "begin" /\ cstate[c] = "freed"
    \/ rpc[c] = "poll" /\ ~cancelReq[c] /\ Released(c)
    \/ /\ rpc[c] = "relay" /\ bc[c].st = "go"
       /\ \/ cstate[c] = "freed"
          \/ bc[c].cur # NULL /\ pstate[bc[c].cur] # "live"

\* An access to released memory ends the process (segmentation fault); the
\* actions above are the outcome in which the stale memory is still readable.
Crash ==
    /\ ~crashed
    /\ \/ \E s \in Sessions : SessFaults(s)
       \/ \E c \in Clients : RdrFaults(c)
    /\ crashed' = TRUE
    /\ UNCHANGED <<regVars, partVars, sessVars, bc, rdrVars, modVars,
                   detachCnt, freeCnt, lineVars>>

\* ------------------------------------------------------------------ Spec

\* No message of the server is looked at.
NoMsg == [command |-> NULL, prefix |-> <<>>, chan |-> NULL, body |-> <<>>,
          done |-> TRUE]

\* The relay thread has made no relay_to_local call.
NoRelay == [chan |-> NULL, text |-> <<>>]

MsgIdle == msg = NoMsg /\ relayed = NoRelay /\ outbox = <<>>

\* The return value of the door is not followed.
ExecIdle == xargs = <<>> /\ xpc = "off" /\ xres = 0 /\ xret = 0 /\ xwhy = NULL

\* load_config is not followed.
CfgIdle == sections = <<>> /\ section = 0 /\ ldpc = "off" /\ loaded = <<>>

\* No thread has been created through create_thread.
ThrIdle ==
    /\ cend = [t \in Threads |-> "none"]
    /\ cret = [t \in Threads |-> 0]
    /\ tdet = [t \in Threads |-> FALSE]
    /\ tpos = [t \in Threads |-> "none"]
    /\ tentry = [t \in Threads |-> "none"]
    /\ jpc = [t \in Threads |-> "idle"]
    /\ jret = [t \in Threads |-> 0]
    /\ jwarn = [t \in Threads |-> FALSE]

\* The line reassembly is not part of this specification.
LineIdle ==
    /\ readbuf = <<>> /\ mybuf = 0 /\ mylen = 0 /\ start = 0 /\ res = 0
    /\ prevbuf = 0 /\ prevlen = 0
    /\ lpc = "off" /\ stream = <<>> /\ stream0 = <<>> /\ dispatched = <<>>
    /\ first = 0

Init ==
    /\ DoorInit
    /\ spc = "pending"
    /\ LineIdle
    /\ MsgIdle
    /\ ExecIdle
    /\ CfgIdle
    /\ ThrIdle

SessionStep(s) ==
    \/ JoinNotFound(s) \/ JoinNoMem(s) \/ JoinOk(s)
    \/ SetChannel(s) \/ LeaveLock(s) \/ LeaveDetach(s)
    \/ SessBcastBegin(s) \/ SessBcastVisit(s) \/ SessBcastWrite(s) \/ SessBcastEnd(s)
    \/ SessType(s) \/ SessQuit(s) \/ SessPipeRead(s) \/ SessPipeEof(s)

RelayStep(c) ==
    \/ RdrRegister(c) \/ RdrBegin(c) \/ RdrLogFail(c) \/ RdrRelay(c)
    \/ RdrBcastVisit(c) \/ RdrBcastWrite(c) \/ RdrBcastEnd(c)
    \/ RdrDisconnect(c) \/ RdrPollDestroyed(c) \/ RdrCancelled(c)

StartStep ==
    \/ StartLock \/ StartConnectFail \/ StartConnectOk \/ StartThreadFail

UnloadStep ==
    \/ UnloadCall \/ UnloadLock \/ UnloadNext \/ UnloadSever \/ UnloadCancel \/ UnloadJoin
    \/ UnloadJoinUnregistered \/ UnloadUnlock

Next ==
    \/ \E s \in Sessions : SessionStep(s)
    \/ \E c \in Clients : RelayStep(c)
    \/ StartStep
    \/ UnloadStep
    \/ Crash

Spec == Init /\ [][Next]_vars

\* A node while the module stays loaded: no write end is closed under it.
SessionChat(s) ==
    \/ JoinNotFound(s) \/ JoinNoMem(s) \/ JoinOk(s)
    \/ SetChannel(s) \/ LeaveLock(s) \/ LeaveDetach(s)
    \/ SessBcastBegin(s) \/ SessBcastVisit(s) \/ SessBcastWrite(s) \/ SessBcastEnd(s)
    \/ SessType(s) \/ SessQuit(s) \/ SessPipeRead(s)

\* A relay thread while the module stays loaded: it is never cancelled and
\* its connection is never destroyed under it.
RelayChat(c) ==
    \/ RdrRegister(c) \/ RdrBegin(c) \/ RdrLogFail(c) \/ RdrRelay(c)
    \/ RdrBcastVisit(c) \/ RdrBcastWrite(c) \/ RdrBcastEnd(c)
    \/ RdrDisconnect(c)

NextChat ==
    \/ \E s \in Sessions : SessionChat(s)
    \/ \E c \in Clients : RelayChat(c)
    \/ StartStep
    \/ Crash

SpecChat == Init /\ [][NextChat]_vars

\* SpecChat with nodes that join, read their pipe and leave but type nothing,
\* and a relay thread that relays nothing.
NextQuiet ==
    \/ \E s \in Sessions :
        \/ JoinNotFound(s) \/ JoinNoMem(s) \/ JoinOk(s)
        \/ SetChannel(s) \/ LeaveLock(s) \/ LeaveDetach(s)
        \/ SessBcastBegin(s) \/ SessBcastVisit(s) \/ SessBcastWrite(s) \/ SessBcastEnd(s)
        \/ SessQuit(s) \/ SessPipeRead(s)
    \/ \E c \in Clients :
        RdrRegister(c) \/ RdrBegin(c) \/ RdrLogFail(c) \/ RdrDisconnect(c)
    \/ StartStep
    \/ Crash

SpecQuiet == Init /\ [][NextQuiet]_vars

\* A node that types nothing: it joins, reads its pipe and leaves.
SessionQuiet(s) ==
    \/ JoinNotFound(s) \/ JoinNoMem(s) \/ JoinOk(s)
    \/ SetChannel(s) \/ LeaveLock(s) \/ LeaveDetach(s)
    \/ SessBcastBegin(s) \/ SessBcastVisit(s) \/ SessBcastWrite(s) \/ SessBcastEnd(s)
    \/ SessQuit(s) \/ SessPipeRead(s) \/ SessPipeEof(s)

\* A relay thread on a network that sends nothing to relay.
RelayQuiet(c) ==
    \/ RdrRegister(c) \/ RdrBegin(c) \/ RdrLogFail(c)
    \/ RdrDisconnect(c) \/ RdrPollDestroyed(c) \/ RdrCancelled(c)

NextUnload ==
    \/ \E s \in Sessions : SessionQuiet(s)
    \/ \E c \in Clients : RelayQuiet(c)
    \/ StartStep
    \/ UnloadStep
    \/ Crash

SpecUnload == Init /\ [][NextUnload]_vars

\* The steps a thread takes on its own once it can: everything but the
\* user's input (running the door, typing, quitting), the network's input
\* (a line to relay, a disconnect), the host's call of unload_module and the
\* crash that may follow a use of released memory.
Fairness ==
    /\ \A s \in Sessions :
        /\ WF_vars(SetChannel(s))
        /\ WF_vars(LeaveLock(s))
        /\ WF_vars(LeaveDetach(s))
        /\ WF_vars(SessBcastBegin(s))
        /\ WF_vars(SessBcastVisit(s))
        /\ WF_vars(SessBcastWrite(s))
        /\ WF_vars(SessBcastEnd(s))
        /\ WF_vars(SessPipeRead(s))
        /\ WF_vars(SessPipeEof(s))
    /\ \A c \in Clients :
        /\ WF_vars(RdrRegister(c))
        /\ WF_vars(RdrBegin(c) \/ RdrLogFail(c))
        /\ WF_vars(RdrPollDestroyed(c))
        /\ WF_vars(RdrCancelled(c))
    /\ WF_vars(StartStep)
    /\ WF_vars(UnloadLock \/ UnloadNext \/ UnloadSever \/ UnloadCancel \/ UnloadJoin
                 \/ UnloadJoinUnregistered \/ UnloadUnlock)

FairUnload == SpecUnload /\ Fairness

\* --------------------------------------- client_relay: line reassembly

Min(a, b) == IF a < b THEN a ELSE b

\* readbuf[i] of the C code.
At(buf, i) == buf[i + 1]

\* The C string that starts at readbuf + i.
RECURSIVE CStr(_, _)
CStr(buf, i) ==
    IF i > ReadBufLen \/ At(buf, i) = NUL THEN <<>>
    ELSE <<At(buf, i)>> \o CStr(buf, i + 1)

\* strstr(readbuf + i, "\r\n") - readbuf, or -1 for NULL.
StrStr(buf, i) ==
    LET n == Len(CStr(buf, i))
        hits == {j \in i..(i + n - 2) : At(buf, j) = CR /\ At(buf, j + 1) = LF}
    IN IF hits = {} THEN -1 ELSE CHOOSE j \in hits : \A k \in hits : j <= k

\* buf with the bytes of seq stored from readbuf + i on.
Store(buf, i, seq) ==
    [k \in 1..Len(buf) |-> IF k - 1 >= i /\ k - 1 < i + Len(seq)
                            THEN seq[k - i] ELSE buf[k]]

\* The variables client_relay's line reassembly does not touch.
doorVars == <<regVars, partVars, sessVars, bc, rdrVars, modVars, ghostVars, msgVars,
             execVars, cfgVars, thrVars>>

\* All byte streams of 1..MaxStream bytes.
Streams == UNION {[1..n -> Bytes] : n \in 1..MaxStream}

\* client_relay, lines 380-399: the locals before the first iteration.
LineInit ==
    /\ readbuf = [k \in 1..(ReadBufLen + 1) |-> "?"]
    /\ mybuf = 0 /\ mylen = ReadBufLen /\ start = 0 /\ res = 0
    /\ prevbuf = 0 /\ prevlen = 0
    /\ lpc = "top"
    /\ stream0 \in Streams
    /\ stream = stream0
    /\ dispatched = <<>>
    /\ first = 0
    /\ MsgIdle
    /\ ExecIdle
    /\ CfgIdle
    /\ ThrIdle

\* Lines 401-421: with mylen <= 1 the pending line is shifted to the start of
\* the buffer; when that frees nothing the buffer is reset.
LineTop ==
    LET pend == CStr(readbuf, start)
        a == Len(pend)
        shifted == Store(readbuf, 0, pend \o <<NUL>>)
    IN
    /\ lpc = "top"
    /\ IF mylen <= 1
       THEN /\ readbuf' = shifted
            /\ start' = 0
            /\ IF ReadBufLen - a <= 1
               THEN mybuf' = 0 /\ mylen' = ReadBufLen
               ELSE mybuf' = a /\ mylen' = ReadBufLen - a
       ELSE UNCHANGED <<readbuf, start, mybuf, mylen>>
    /\ lpc' = "wait"
    /\ UNCHANGED <<res, prevbuf, prevlen, stream, stream0, dispatched, first, doorVars>>

\* Lines 423-438: irc_poll unless the last read filled the buffer, then
\* irc_read of up to mylen bytes at mybuf, and the terminating NUL.
LineRead ==
    /\ lpc = "wait"
    /\ stream # <<>>
    /\ \E n \in 1..Min(mylen, Len(stream)) :
        /\ res' = n
        /\ readbuf' = Store(readbuf, mybuf, SubSeq(stream, 1, n) \o <<NUL>>)
        /\ stream' = SubSeq(stream, n + 1, Len(stream))
        /\ first' = IF first = 0 THEN n ELSE first
    /\ prevbuf' = mybuf
    /\ prevlen' = mylen
    /\ lpc' = "scan"
    /\ UNCHANGED <<mybuf, mylen, start, stream0, dispatched, doorVars>>

\* Lines 426-436: the server has closed the connection, irc_poll or irc_read
\* returns <= 0 and the loop breaks.
LineClosed ==
    /\ lpc = "wait"
    /\ stream = <<>>
    /\ res' = 0
    /\ lpc' = "stopped"
    /\ UNCHANGED <<readbuf, mybuf, mylen, start, prevbuf, prevlen, stream, stream0,
                   dispatched, first, doorVars>>

\* LineIncomplete without the subtraction of line 445.
LineIncompleteKeepsLen ==
    /\ lpc = "scan"
    /\ StrStr(readbuf, mybuf) = -1
    /\ mybuf' = prevbuf + res
    /\ mylen' = prevlen
    /\ lpc' = "top"
    /\ UNCHANGED <<readbuf, start, res, prevbuf, prevlen, stream, stream0, dispatched,
                   first, doorVars>>

\* Lines 440-446: no "\r\n" from mybuf on; the fragment is kept and the next
\* read appends to it.
LineIncomplete ==
    /\ lpc = "scan"
    /\ StrStr(readbuf, mybuf) = -1
    /\ mybuf' = prevbuf + res
    /\ mylen' = prevlen - res
    /\ lpc' = "top"
    /\ UNCHANGED <<readbuf, start, res, prevbuf, prevlen, stream, stream0, dispatched,
                   first, doorVars>>

\* Lines 448-467: a "\r\n" from mybuf on; the line that starts at start is
\* handed to irc_parse_msg, then the scan goes on behind it or, at the end of
\* the data, the buffer is reset.
LineDispatch ==
    LET eom == StrStr(readbuf, mybuf)
        more == At(readbuf, eom + 2) # NUL
        buf2 == IF more THEN Store(readbuf, eom + 1, <<NUL>>) ELSE readbuf
    IN
    /\ lpc = "scan"
    /\ eom # -1
    /\ readbuf' = buf2
    /\ dispatched' = Append(dispatched, CStr(buf2, start))
    /\ IF more
       THEN /\ mylen' = mylen - (eom + 2 - mybuf)
            /\ start' = eom + 2
            /\ mybuf' = eom + 2
            /\ lpc' = "scan"
       ELSE /\ mylen' = ReadBufLen
            /\ start' = 0
            /\ mybuf' = 0
            /\ lpc' = "top"
    /\ UNCHANGED <<res, prevbuf, prevlen, stream, stream0, first, doorVars>>

LineNext == LineTop \/ LineRead \/ LineClosed \/ LineIncomplete \/ LineDispatch

\* Everything but the line reassembly is at rest.
SpecReaderInit ==
    /\ DoorInit
    /\ spc = "pending"
    /\ LineInit

SpecReader == SpecReaderInit /\ [][LineNext]_vars

\* ------------------------------- __chat_send over pipes that reject writes

\* The orders in which nodes can sit in a participants list.
Orders ==
    {o \in UNION {[1..n -> Sessions] : n \in 0..Cardinality(Sessions)} :
        \A i, j \in 1..Len(o) : i # j => o[i] # o[j]}

\* The module is loaded and started, its one client is up with its relay
\* thread in irc_poll, and the nodes of some order o have joined (the last to
\* join is at the head) and sit in the loop of participant_relay with empty
\* pipes, the write end of each in one of the states W.
StartedWith(W) ==
    /\ clients = <<"c1">>
    /\ clientsLock = NULL
    /\ unloading = FALSE
    /\ cstate = [c \in Clients |-> "loaded"]
    /\ conn = [c \in Clients |-> "up"]
    /\ plock = [c \in Clients |-> {}]
    /\ \E o \in Orders :
        LET in == {o[i] : i \in 1..Len(o)} IN
        /\ head = [c \in Clients |-> IF o = <<>> THEN NULL ELSE o[1]]
        /\ nxt = [s \in Sessions |->
                    IF \E i \in 1..(Len(o) - 1) : o[i] = s
                    THEN o[(CHOOSE i \in 1..(Len(o) - 1) : o[i] = s) + 1]
                    ELSE NULL]
        /\ pstate = [s \in Sessions |-> IF s \in in THEN "live" ELSE "none"]
        /\ pclient = [s \in Sessions |-> IF s \in in THEN "c1" ELSE NULL]
        /\ pchan \in [Sessions -> Channels \cup {NULL}]
        /\ \A s \in Sessions : IF s \in in THEN pchan[s] \in ChannelsOf(s)
                                           ELSE pchan[s] = NULL
        /\ wfd \in [Sessions -> W \cup {"closed"}]
        /\ \A s \in Sessions : (wfd[s] = "closed") <=> (s \notin in)
        /\ rfd = [s \in Sessions |-> IF s \in in THEN "open" ELSE "closed"]
        /\ pc = [s \in Sessions |-> IF s \in in THEN "loop" ELSE "idle"]
    /\ arg = pchan
    /\ queue = [s \in Sessions |-> <<>>]
    /\ bc = [t \in Senders |-> NoBcast]
    /\ rpc = [c \in Clients |-> "poll"]
    /\ cancelReq = [c \in Clients |-> FALSE]
    /\ treg = [c \in Clients |-> "registered"]
    /\ upc = "idle"
    /\ ucl = NULL
    /\ spc = "done"
    /\ stodo = <<>>
    /\ crashed = FALSE
    /\ detachCnt = [s \in Sessions |-> 0]
    /\ freeCnt = [s \in Sessions |-> 0]
    /\ LineIdle
    /\ ExecIdle
    /\ CfgIdle
    /\ ThrIdle

\* write() on the pipe of some of the nodes fails.
SendInit == StartedWith({"open", "broken"}) /\ MsgIdle

\* The relay thread broadcasts what the network sends; the nodes read their
\* pipes.
NextSend ==
    \/ \E c \in Clients : RdrRelay(c) \/ RdrBcastVisit(c) \/ RdrBcastWrite(c)
                            \/ RdrBcastEnd(c)
    \/ \E s \in Sessions : SessPipeRead(s)

SpecSend == SendInit /\ [][NextSend]_vars

\* ----------------------------------------------------------- handle_irc_msg

SOH == "SOH"     \* the CTCP delimiter 0x01
SP == "SP"       \* a space
BANG == "!"

\* Longest PRIVMSG / NOTICE body (what follows "CHANNEL :"), in symbols.
MaxBody == 5

\* The symbols of a body: the delimiter, the space, the words irc_ctcp_from_string
\* knows, and a word it does not know.
BodySyms == {SOH, SP, "ACTION", "VERSION", "PING", "TIME", "x"}

\* The bodies: every extended-data body of up to MaxBody symbols, and the
\* short plain ones (they are all handled alike).
Bodies ==
    {b \in UNION {[1..n -> BodySyms] : n \in 0..MaxBody} :
        Len(b) <= 2 \/ b[1] = SOH}

\* msg->prefix: a bare nickname, or nickname!user.
Prefixes == {<<"n">>, <<"n", BANG, "u">>}

\* The commands with a "CHANNEL :BODY" body, and the others ("NUMERIC"
\* stands for any message with msg->numeric set).
TextCommands == {"PRIVMSG", "NOTICE"}
OtherCommands == {"NUMERIC", "PING", "JOIN", "PART", "QUIT", "KICKED", "NICK", "MODE",
                  "ERROR", "TOPIC", "WALLOPS"}

\* The messages irc_parse_msg hands over. The channel of a message is "#a".
Messages ==
    [command : TextCommands, prefix : Prefixes, chan : {"#a"}, body : Bodies,
     done : {FALSE}]
    \cup [command : OtherCommands, prefix : Prefixes, chan : {"#a"}, body : {<<"x">>},
          done : {FALSE}]

\* strchr(str, x) - str + 1, or 0 for NULL.
StrChr(str, x) ==
    LET hits == {i \in 1..Len(str) : str[i] = x}
    IN IF hits = {} THEN 0 ELSE CHOOSE i \in hits : \A j \in hits : i <= j

\* str after *strchr(str, x) = '\0'; also the token strsep(&str, x) returns.
CutAt(str, x) == IF StrChr(str, x) = 0 THEN str ELSE SubSeq(str, 1, StrChr(str, x) - 1)

\* A char * that is NULL.
NullStr == <<NULL>>

\* str after strsep(&str, x): what follows the separator, NULL without one.
RestAfter(str, x) ==
    IF StrChr(str, x) = 0 THEN NullStr ELSE SubSeq(str, StrChr(str, x) + 1, Len(str))

\* irc_ctcp_from_string: the verb, "-1" when it is not a known one.
CtcpFromString(name) ==
    IF Len(name) = 1 /\ name[1] \in {"ACTION", "VERSION", "PING", "TIME"}
    THEN name[1] ELSE "-1"

\* printf("%s") of a string, or of a null pointer (glibc prints "(null)").
FmtS(str) == IF str = NullStr THEN <<"(null)">> ELSE str

NoEffect == [kind |-> "none"]
RelayEffect(ch, text) == [kind |-> "relay", chan |-> ch, text |-> text]
ReplyEffect(to, ctcp, data) == [kind |-> "reply", to |-> to, ctcp |-> ctcp, data |-> data]

\* HandleCtcp relaying every known verb to the local participants.
HandleCtcpRelayAll(m) ==
    LET body1 == Tail(m.body)
        body2 == CutAt(body1, SOH)
        ctcp_name == CutAt(body2, SP)
        body == RestAfter(body2, SP)
        nick == CutAt(m.prefix, BANG)
        ctcp == CtcpFromString(ctcp_name)
    IN
    IF body1 = <<>> THEN NoEffect
    ELSE IF ctcp = "-1" THEN NoEffect
    ELSE IF m.command # "PRIVMSG" THEN NoEffect
    ELSE RelayEffect(m.chan, <<"[ACTION] <">> \o nick \o <<"> ">> \o FmtS(body)
                                \o <<"\n">>)

\* HandleCtcp answering a NOTICE as it answers a PRIVMSG.
HandleCtcpAnswerNotice(m) ==
    LET body1 == Tail(m.body)
        body2 == CutAt(body1, SOH)
        ctcp_name == CutAt(body2, SP)
        body == RestAfter(body2, SP)
        nick == CutAt(m.prefix, BANG)
        ctcp == CtcpFromString(ctcp_name)
    IN
    IF body1 = <<>> THEN NoEffect
    ELSE IF ctcp = "-1" THEN NoEffect
    ELSE IF ctcp = "ACTION"
         THEN RelayEffect(m.chan, <<"[ACTION] <">> \o nick \o <<"> ">> \o FmtS(body)
                                     \o <<"\n">>)
    ELSE IF ctcp = "VERSION" THEN ReplyEffect(nick, ctcp, <<"version">>)
    ELSE IF ctcp = "PING" THEN ReplyEffect(nick, ctcp, body)
    ELSE ReplyEffect(nick, ctcp, <<"timebuf">>)

\* Lines 280-340: the extended-data branch for a body that starts with 0x01.
HandleCtcp(m) ==
    LET body1 == Tail(m.body)                    \* body++
        body2 == CutAt(body1, SOH)               \* *tmp = '\0' at the next 0x01
        ctcp_name == CutAt(body2, SP)            \* strsep(&body, " ")
        body == RestAfter(body2, SP)
        nick == CutAt(m.prefix, BANG)
        ctcp == CtcpFromString(ctcp_name)
    IN
    IF body1 = <<>> THEN NoEffect
    ELSE IF ctcp = "-1" THEN NoEffect
    ELSE IF m.command # "PRIVMSG" THEN NoEffect
    ELSE IF ctcp = "ACTION"
         THEN RelayEffect(m.chan, <<"[ACTION] <">> \o nick \o <<"> ">> \o FmtS(body)
                                     \o <<"\n">>)
    ELSE IF ctcp = "VERSION" THEN ReplyEffect(nick, ctcp, <<"version">>)
    ELSE IF ctcp = "PING" THEN ReplyEffect(nick, ctcp, body)
    ELSE ReplyEffect(nick, ctcp, <<"timebuf">>)

\* handle_irc_msg: what the message makes the relay thread do.
HandleIrcMsg(m) ==
    IF m.command = "NUMERIC" THEN NoEffect
    ELSE IF m.command \in TextCommands
    THEN IF m.body # <<>> /\ m.body[1] = SOH
         THEN HandleCtcp(m)
         ELSE RelayEffect(m.chan, <<"<">> \o CutAt(m.prefix, BANG) \o <<"> ">> \o m.body
                                     \o <<"\n">>)
    ELSE IF m.command = "PING"
    THEN [kind |-> "send", to |-> <<"server">>, ctcp |-> "PONG", data |-> Tail(m.body)]
    ELSE IF m.command \in {"JOIN", "PART", "QUIT", "KICKED"}
    THEN RelayEffect(m.chan, m.prefix \o <<" has ", m.command, "\n">>)
    ELSE IF m.command = "NICK"
    THEN RelayEffect("", m.prefix \o <<" is now known as ">> \o m.body \o <<"\n">>)
    ELSE NoEffect

\* RdrHandle passing dorelay = 1 to _chat_send: what the network sent goes
\* back to the channel.
RdrHandleRelaysOut(c) ==
    LET e == HandleIrcMsg(msg) IN
    /\ ~crashed
    /\ rpc[c] = "poll" /\ ~cancelReq[c]
    /\ conn[c] = "up"
    /\ ~msg.done
    /\ msg' = [msg EXCEPT !.done = TRUE]
    /\ IF e.kind = "relay"
       THEN /\ BBegin(c, c, NULL, e.chan, TRUE)
            /\ rpc' = [rpc EXCEPT ![c] = "relay"]
            /\ relayed' = [chan |-> e.chan, text |-> e.text]
            /\ UNCHANGED outbox
       ELSE /\ outbox' = IF e.kind = "none" THEN outbox
                         ELSE Append(outbox, [to |-> e.to, ctcp |-> e.ctcp,
                                              data |-> e.data])
            /\ UNCHANGED <<plock, bc, rpc, relayed>>
    /\ UNCHANGED <<clients, clientsLock, unloading, cstate, conn, head>>
    /\ UNCHANGED <<partVars, sessVars, cancelReq, treg, modVars, ghostVars>>
    /\ UNCHANGED <<readbuf, mybuf, mylen, start, res, prevbuf, prevlen, lpc, stream,
                   stream0, dispatched, first, execVars, cfgVars, thrVars>>

\* client_relay, line 458: handle_irc_msg on the message just parsed. A
\* relay_to_local call ends inside __chat_send, the participants read-locked.
RdrHandle(c) ==
    LET e == HandleIrcMsg(msg) IN
    /\ ~crashed
    /\ rpc[c] = "poll" /\ ~cancelReq[c]
    /\ conn[c] = "up"
    /\ ~msg.done
    /\ msg' = [msg EXCEPT !.done = TRUE]
    /\ IF e.kind = "relay"
       THEN /\ BBegin(c, c, NULL, e.chan, FALSE)
            /\ rpc' = [rpc EXCEPT ![c] = "relay"]
            /\ relayed' = [chan |-> e.chan, text |-> e.text]
            /\ UNCHANGED outbox
       ELSE /\ outbox' = IF e.kind = "none" THEN outbox
                         ELSE Append(outbox, [to |-> e.to, ctcp |-> e.ctcp,
                                              data |-> e.data])
            /\ UNCHANGED <<plock, bc, rpc, relayed>>
    /\ UNCHANGED <<clients, clientsLock, unloading, cstate, conn, head>>
    /\ UNCHANGED <<partVars, sessVars, cancelReq, treg, modVars, ghostVars>>
    /\ UNCHANGED <<readbuf, mybuf, mylen, start, res, prevbuf, prevlen, lpc, stream,
                   stream0, dispatched, first, execVars, cfgVars, thrVars>>

\* The server has sent one message and the relay thread has parsed it.
MsgInit ==
    /\ StartedWith({"open"})
    /\ msg \in Messages
    /\ relayed = NoRelay
    /\ outbox = <<>>

NextMsg ==
    \E c \in Clients : RdrHandle(c) \/ RdrBcastVisit(c) \/ RdrBcastWrite(c)
                         \/ RdrBcastEnd(c)

SpecMsg == MsgInit /\ [][NextMsg]_vars

\* ------------------------------- irc_client_exec: the value it returns

\* Longest line bbs_poll_read and read() return, in bytes.
MaxLine == 3

\* The symbols of an argument string: two client names, the comma, a channel.
ArgSyms == {"net1", "nope", ",", "#a"}

\* Longest argument string, in symbols.
MaxArgs == 3

ArgStrings == UNION {[1..n -> ArgSyms] : n \in 0..MaxArgs}

\* The variables the sequential course of one door call does not touch.
restVars == <<regVars, partVars, sessVars, bc, rdrVars, modVars, ghostVars, msgVars,
              cfgVars, thrVars, first, readbuf, mybuf, mylen, start, res, prevbuf, prevlen, lpc, stream,
              stream0, dispatched>>

\* irc_client_exec returns v.
ExecReturn(v, why) ==
    /\ xret' = v
    /\ xwhy' = why
    /\ xpc' = "returned"

\* The loop of participant_relay breaks: chat_send of "has left" (line 633),
\* return res, leave_client, and irc_client_exec returns that value.
RelayBreak(v, why) ==
    /\ xres' = v
    /\ ExecReturn(v, why)

\* Lines 644-661: the argument checks and join_client. The client name is
\* what stands before the first comma, the channel what follows it.
ExecJoin ==
    LET client == CutAt(xargs, ",")
        channel == RestAfter(xargs, ",")
        found == Len(client) = 1 /\ FindClient(client[1]) # NULL
    IN
    /\ xpc = "entry"
    /\ IF xargs = <<>> \/ channel \in {NullStr, <<>>} \/ client = <<>>
       THEN ExecReturn(0, "refused") /\ UNCHANGED xres
       ELSE \/ /\ ~found
               /\ ExecReturn(0, "refused") /\ UNCHANGED xres
            \/ /\ found                         \* calloc or pipe fails
               /\ ExecReturn(0, "refused") /\ UNCHANGED xres
            \/ /\ found      \* chat_send of "has joined", into the loop
               /\ xpc' = "poll"
               /\ UNCHANGED <<xres, xret, xwhy>>
    /\ UNCHANGED <<xargs, restVars>>

\* Lines 572-575: res = bbs_poll2(node, 10 s, pipe): negative on failure, 0
\* on timeout, 1 for the terminal, 2 for the pipe.
RelayPoll ==
    /\ xpc = "poll"
    /\ \E r \in {-1, 0, 1, 2} :
        IF r < 0 THEN RelayBreak(r, "io")
        ELSE /\ xres' = r
             /\ xpc' = IF r = 1 THEN "key" ELSE IF r = 2 THEN "pipe" ELSE "poll"
             /\ UNCHANGED <<xret, xwhy>>
    /\ UNCHANGED <<xargs, restVars>>

\* Lines 577-585: res = bbs_read of one key; res = 0; a bare ENTER goes
\* round the loop.
RelayKey ==
    /\ xpc = "key"
    /\ \/ \E r \in {-1, 0} : RelayBreak(r, IF r < 0 THEN "io" ELSE "hangup")
       \/ /\ xres' = 0
          /\ \E enter \in BOOLEAN : xpc' = IF enter THEN "poll" ELSE "line"
          /\ UNCHANGED <<xret, xwhy>>
    /\ UNCHANGED <<xargs, restVars>>

\* Lines 590-606: res = bbs_poll_read of the rest of the line (30 s):
\* negative on failure, 0 when the terminal hung up or when nothing came
\* within the 30 s; res++; break on /quit, else chat_send of the line and
\* round the loop.
RelayLine ==
    /\ xpc = "line"
    /\ \/ RelayBreak(-1, "io")
       \/ \E why \in {"hangup", "timeout"} : RelayBreak(0, why)
       \/ \E r \in 1..(MaxLine - 1), quit \in BOOLEAN :
            IF quit THEN RelayBreak(r + 1, "quit")
            ELSE /\ xres' = r + 1
                 /\ xpc' = "poll"
                 /\ UNCHANGED <<xret, xwhy>>
    /\ UNCHANGED <<xargs, restVars>>

\* Lines 609-629: res = read() of the pipe: 0 at end-of-stream, negative on
\* failure; then the text goes to the terminal, and the bell rings on a
\* mention; res = -1 when either write fails.
RelayPipe ==
    /\ xpc = "pipe"
    /\ \/ RelayBreak(0, "eof")
       \/ RelayBreak(-1, "io")
       \/ \E r \in 1..MaxLine, ok \in BOOLEAN :
            IF ok THEN /\ xres' = r
                       /\ xpc' = "poll"
                       /\ UNCHANGED <<xret, xwhy>>
            ELSE RelayBreak(-1, "io")
    /\ UNCHANGED <<xargs, restVars>>

\* A node runs the door with some argument string.
ExecInit ==
    /\ DoorInit
    /\ spc = "pending"
    /\ LineIdle
    /\ MsgIdle
    /\ CfgIdle
    /\ ThrIdle
    /\ xargs \in ArgStrings
    /\ xpc = "entry" /\ xres = 0 /\ xret = 0 /\ xwhy = NULL

NextExec == ExecJoin \/ RelayPoll \/ RelayKey \/ RelayLine \/ RelayPipe

SpecExec == ExecInit /\ [][NextExec]_vars

\* ------------------------------------------------------------ load_config

\* Most sections of a door_irc.conf.
MaxSections == 3

\* The section names of a configuration: [general] and three client sections,
\* two of them equal but for the case.
SectionNames == {"general", "net1", "NET1", "net2"}

\* bbs_config_load returned NULL.
NoConfig == <<NULL>>

\* The configurations: any sections in any order, names repeated or not.
Configs == UNION {[1..n -> SectionNames] : n \in 0..MaxSections}

\* The variables load_config does not touch.
loadRest == <<regVars, partVars, sessVars, bc, rdrVars, modVars, ghostVars, msgVars,
              execVars, thrVars, first, readbuf, mybuf, mylen, start, res, prevbuf, prevlen,
              lpc, stream, stream0, dispatched>>

\* Lines 88-91: without the file load_config returns -1.
LoadNoConfig ==
    /\ ldpc = "entry"
    /\ sections = NoConfig
    /\ ldpc' = "declined"
    /\ UNCHANGED <<sections, section, loaded, loadRest>>

\* Line 93: RWLIST_WRLOCK(&clients).
LoadLock ==
    /\ ldpc = "entry"
    /\ sections # NoConfig
    /\ ldpc' = "walk"
    /\ UNCHANGED <<sections, section, loaded, loadRest>>

\* Lines 94-103: bbs_config_walk returns [general], which is skipped.
LoadSkipGeneral ==
    /\ ldpc = "walk"
    /\ section < Len(sections)
    /\ sections[section + 1] = "general"
    /\ section' = section + 1
    /\ UNCHANGED <<sections, ldpc, loaded, loadRest>>

\* Lines 115-119: calloc fails for a client section.
LoadNoMem ==
    /\ ldpc = "walk"
    /\ section < Len(sections)
    /\ sections[section + 1] # "general"
    /\ section' = section + 1
    /\ UNCHANGED <<sections, ldpc, loaded, loadRest>>

\* Lines 121-125: irc_client_new fails; the client is freed again.
LoadNoClient ==
    /\ ldpc = "walk"
    /\ section < Len(sections)
    /\ sections[section + 1] # "general"
    /\ section' = section + 1
    /\ UNCHANGED <<sections, ldpc, loaded, loadRest>>

\* Lines 104-139: a client section becomes a client named after it, at the
\* tail of the list.
LoadInsert ==
    /\ ldpc = "walk"
    /\ section < Len(sections)
    /\ sections[section + 1] # "general"
    /\ loaded' = Append(loaded, sections[section + 1])
    /\ section' = section + 1
    /\ UNCHANGED <<sections, ldpc, loadRest>>

\* Lines 141-142: the walk is over, RWLIST_UNLOCK(&clients) and return 0.
LoadUnlock ==
    /\ ldpc = "walk"
    /\ section = Len(sections)
    /\ ldpc' = "done"
    /\ UNCHANGED <<sections, section, loaded, loadRest>>

\* load_module calls load_config on some configuration, or without one.
LoadInit ==
    /\ DoorInit
    /\ spc = "pending"
    /\ LineIdle
    /\ MsgIdle
    /\ ExecIdle
    /\ ThrIdle
    /\ sections \in Configs \cup {NoConfig}
    /\ section = 0
    /\ ldpc = "entry"
    /\ loaded = <<>>

NextLoad ==
    LoadNoConfig \/ LoadLock \/ LoadSkipGeneral \/ LoadNoMem \/ LoadNoClient
        \/ LoadInsert \/ LoadUnlock

SpecLoad == LoadInit /\ [][NextLoad]_vars

\* The clients of the list built by load_config that join_client treats as
\* the client called name.
Named(name) == {i \in 1..Len(loaded) : StrCaseEq(loaded[i], name)}

\* ------------------------------- handle_irc_msg: any message of the parser

\* msg->body of a PRIVMSG / NOTICE behind "CHANNEL ": NullStr when the body
\* holds no space (a target and nothing else, or no body at all).
RawBodies == {NullStr, <<>>, <<"x">>, <<SOH>>, <<SOH, "VERSION">>}

\* Every message irc_parse_msg can hand over: msg->prefix is NULL for a line
\* without a leading ':', msg->command is NULL (and msg->numeric 0) for a
\* line whose command token is a number of value 0.
RawMessages ==
    [command : TextCommands, prefix : Prefixes \cup {NullStr}, chan : {"#a"},
     body : RawBodies, done : {FALSE}]
    \cup [command : OtherCommands \cup {NULL}, prefix : Prefixes, chan : {"#a"},
          body : {<<"x">>}, done : {FALSE}]

\* handle_irc_msg does not return on message m: assert(0) at line 270 (with
\* NDEBUG strcmp(NULL, ...) at line 272), *body at line 280 with body the
\* null pointer plus one, strchr(NULL, '!') at lines 300 and 342.
Faults(m) ==
    \/ m.command = NULL
    \/ /\ m.command \in TextCommands
       /\ \/ m.body = NullStr
          \/ /\ m.prefix = NullStr
             /\ ~(m.body # <<>> /\ m.body[1] = SOH /\ Tail(m.body) = <<>>)

\* client_relay, line 458: handle_irc_msg on a message that kills the process.
RdrFault(c) ==
    /\ ~crashed
    /\ rpc[c] = "poll" /\ ~cancelReq[c]
    /\ conn[c] = "up"
    /\ ~msg.done
    /\ Faults(msg)
    /\ crashed' = TRUE
    /\ UNCHANGED <<regVars, partVars, sessVars, bc, rdrVars, modVars, detachCnt, freeCnt,
                   lineVars>>

\* client_relay, line 458: handle_irc_msg on a message it returns from.
RdrAccept(c) == ~Faults(msg) /\ RdrHandle(c)

\* The server has sent one message, of any form, and the relay thread has
\* parsed it.
RawInit ==
    /\ StartedWith({"open"})
    /\ msg \in RawMessages
    /\ relayed = NoRelay
    /\ outbox = <<>>

NextRaw ==
    \E c \in Clients : RdrFault(c) \/ RdrAccept(c) \/ RdrBcastVisit(c)
                         \/ RdrBcastWrite(c) \/ RdrBcastEnd(c)

SpecRaw == RawInit /\ [][NextRaw]_vars

\* ------------------------------------------- thread.c: create and join

\* Largest error number pthread_create returns.
MaxErrno == 2

\* The variables thread.c does not touch.
thrRest == <<regVars, partVars, sessVars, bc, rdrVars, modVars, ghostVars, msgVars,
             execVars, cfgVars, readbuf, mybuf, mylen, start, res, prevbuf, prevlen,
             lpc, stream, stream0, dispatched, first>>

\* create_thread, lines 346-351: malloc of the thr_arg fails.
CreateNoMem(t) ==
    /\ cend[t] = "none"
    /\ cend' = [cend EXCEPT ![t] = "malloc"]
    /\ cret' = [cret EXCEPT ![t] = -1]
    /\ UNCHANGED <<tdet, tpos, tentry, jpc, jret, jwarn, thrRest>>

\* CreateNoName going on without a name: the thread is spawned and
\* create_thread returns 0.
CreateNoNameGoesOn(t) ==
    /\ cend[t] = "none"
    /\ cend' = [cend EXCEPT ![t] = "asprintf"]
    /\ cret' = [cret EXCEPT ![t] = 0]
    /\ tpos' = [tpos EXCEPT ![t] = "spawned"]
    /\ UNCHANGED <<tdet, tentry, jpc, jret, jwarn, thrRest>>

\* create_thread, lines 358-362: asprintf of the thread name fails.
CreateNoName(t) ==
    /\ cend[t] = "none"
    /\ cend' = [cend EXCEPT ![t] = "asprintf"]
    /\ cret' = [cret EXCEPT ![t] = -1]
    /\ UNCHANGED <<tdet, tpos, tentry, jpc, jret, jwarn, thrRest>>

\* create_thread, lines 365-372: pthread_create fails and its error number
\* is returned.
CreateFail(t) ==
    /\ cend[t] = "none"
    /\ \E e \in 1..MaxErrno : cret' = [cret EXCEPT ![t] = e]
    /\ cend' = [cend EXCEPT ![t] = "pthread_create"]
    /\ UNCHANGED <<tdet, tpos, tentry, jpc, jret, jwarn, thrRest>>

\* create_thread, lines 365-372: pthread_create spawns the thread, which
\* starts in thread_run; create_thread returns 0.
CreateOk(t) ==
    /\ cend[t] = "none"
    /\ \E d \in BOOLEAN : tdet' = [tdet EXCEPT ![t] = d]
    /\ cend' = [cend EXCEPT ![t] = "ok"]
    /\ cret' = [cret EXCEPT ![t] = 0]
    /\ tpos' = [tpos EXCEPT ![t] = "spawned"]
    /\ UNCHANGED <<tentry, jpc, jret, jwarn, thrRest>>

\* thread_run, line 332, thread_register lines 75-90: the thread puts its
\* entry into thread_list and enters the start routine.
ThreadRegister(t) ==
    /\ tpos[t] = "spawned"
    /\ tentry' = [tentry EXCEPT ![t] = IF tdet[t] THEN "detached" ELSE "joinable"]
    /\ tpos' = [tpos EXCEPT ![t] = "start"]
    /\ UNCHANGED <<cend, cret, tdet, jpc, jret, jwarn, thrRest>>

\* thread_register, lines 77-81: calloc fails, the thread runs the start
\* routine without an entry.
ThreadRegisterNoMem(t) ==
    /\ tpos[t] = "spawned"
    /\ tpos' = [tpos EXCEPT ![t] = "start"]
    /\ UNCHANGED <<cend, cret, tdet, tentry, jpc, jret, jwarn, thrRest>>

\* Unregistered removing the entry whatever its state.
UnregisteredRemoves(t) == "none"

\* __thread_unregister, lines 100-114, on the entry of thread t: an entry
\* that is detached or waiting to be joined is removed, a joinable one is
\* marked as waiting to be joined.
Unregistered(t) ==
    IF tentry[t] \in {"detached", "waitjoin"} THEN "none"
    ELSE IF tentry[t] = "joinable" THEN "waitjoin"
    ELSE "none"

\* thread_run, line 337: the start routine has returned (or the thread was
\* cancelled) and the cleanup handler thread_unregister runs.
ThreadCleanup(t) ==
    /\ tpos[t] = "start"
    /\ tentry' = [tentry EXCEPT ![t] = Unregistered(t)]
    /\ tpos' = [tpos EXCEPT ![t] = "unregistered"]
    /\ UNCHANGED <<cend, cret, tdet, jpc, jret, jwarn, thrRest>>

\* thread_run, line 338: the thread ends.
ThreadExit(t) ==
    /\ tpos[t] = "unregistered"
    /\ tpos' = [tpos EXCEPT ![t] = "exited"]
    /\ UNCHANGED <<cend, cret, tdet, tentry, jpc, jret, jwarn, thrRest>>

\* __bbs_pthread_join, lines 253-275: the creator looks the thread up in
\* thread_list. Without an entry, or with a detached one, it returns -1.
JoinLookup(t) ==
    /\ cend[t] = "ok"
    /\ jpc[t] = "idle"
    /\ IF tentry[t] \in {"none", "detached"}
       THEN /\ jpc' = [jpc EXCEPT ![t] = "done"]
            /\ jret' = [jret EXCEPT ![t] = -1]
       ELSE /\ jpc' = [jpc EXCEPT ![t] = IF tentry[t] = "waitjoin" THEN "join"
                                         ELSE "timed"]
            /\ UNCHANGED jret
    /\ UNCHANGED <<cend, cret, tdet, tpos, tentry, jwarn, thrRest>>

\* Lines 279-287: pthread_timedjoin_np times out after 30 ms; a warning is
\* logged and the timed join is repeated.
JoinTimedOut(t) ==
    /\ jpc[t] = "timed"
    /\ tpos[t] # "exited"
    /\ jwarn' = [jwarn EXCEPT ![t] = TRUE]
    /\ jpc' = [jpc EXCEPT ![t] = "loop"]
    /\ UNCHANGED <<cend, cret, tdet, tpos, tentry, jret, thrRest>>

\* Lines 287-295: pthread_timedjoin_np or pthread_join returns 0, the thread
\* has ended.
JoinJoined(t) ==
    /\ jpc[t] \in {"timed", "loop", "join"}
    /\ tpos[t] = "exited"
    /\ jpc' = [jpc EXCEPT ![t] = "unregister"]
    /\ UNCHANGED <<cend, cret, tdet, tpos, tentry, jret, jwarn, thrRest>>

\* Lines 301-306: __thread_unregister by the joiner; -1 when the entry is
\* not found.
JoinUnregister(t) ==
    /\ jpc[t] = "unregister"
    /\ tentry' = [tentry EXCEPT ![t] = Unregistered(t)]
    /\ jret' = [jret EXCEPT ![t] = IF tentry[t] = "none" THEN -1 ELSE 0]
    /\ jpc' = [jpc EXCEPT ![t] = "done"]
    /\ UNCHANGED <<cend, cret, tdet, tpos, jwarn, thrRest>>

NextThread ==
    \E t \in Threads :
        \/ CreateNoMem(t) \/ CreateNoName(t) \/ CreateFail(t) \/ CreateOk(t)
        \/ ThreadRegister(t) \/ ThreadRegisterNoMem(t) \/ ThreadCleanup(t)
        \/ ThreadExit(t)
        \/ JoinLookup(t) \/ JoinTimedOut(t) \/ JoinJoined(t) \/ JoinUnregister(t)

\* Threads are created, run and are joined; the door is at rest.
SpecThread == Init /\ [][NextThread]_vars

\* ------------------------- handle_irc_msg: the routes other than PRIVMSG

COLON == ":"

\* msg->body of a PING: none, a bare ':', ":x", or "x" without the colon.
PingBodies == {NullStr, <<COLON>>, <<COLON, "x">>, <<"x">>}

\* The commands relayed as announcements, and KICK as the network spells it.
PresenceCommands == {"JOIN", "PART", "QUIT", "KICK", "KICKED", "NICK"}

\* The messages of the routes below PRIVMSG / NOTICE. For JOIN, PART, QUIT
\* and KICK the field chan is msg->body, which handle_irc_msg passes on as
\* the channel. The last set has msg->numeric set (372 stands for any
\* number but 0), whatever else the message holds.
RouteMessages ==
    [command : {"PING"}, prefix : {<<"n">>}, chan : {"#a"}, body : PingBodies,
     numeric : {0}, done : {FALSE}]
    \cup [command : PresenceCommands, prefix : Prefixes, chan : Channels,
          body : {<<"x">>}, numeric : {0}, done : {FALSE}]
    \cup [command : {"MODE", "ERROR", "TOPIC", "WALLOPS"}, prefix : Prefixes,
          chan : {"#a"}, body : {<<"x">>}, numeric : {0}, done : {FALSE}]
    \cup [command : {NULL, "PING", "PRIVMSG", "JOIN", "NICK", "WALLOPS"},
          prefix : {<<"n">>}, chan : {"#a"}, body : {<<COLON, "x">>},
          numeric : {372}, done : {FALSE}]

\* Route answering to the command of a message that has a numeric.
RouteCommandFirst(m) ==
    IF m.command # NULL THEN HandleIrcMsg(m) ELSE NoEffect

\* Lines 260-267: a message with a numeric is logged and nothing else; any
\* other message goes by its command.
Route(m) ==
    IF m.numeric # 0 THEN NoEffect ELSE HandleIrcMsg(m)

\* Lines 370-372: the message ends in the last else, "Unhandled command".
Unhandled(m) ==
    /\ m.numeric = 0
    /\ m.command \notin TextCommands \cup {"PING", "JOIN", "PART", "QUIT", "KICKED",
                                          "NICK", "MODE", "ERROR", "TOPIC"}

\* client_relay, line 458: handle_irc_msg on a message of RouteMessages.
RdrRoute(c) ==
    LET e == Route(msg) IN
    /\ ~crashed
    /\ rpc[c] = "poll" /\ ~cancelReq[c]
    /\ conn[c] = "up"
    /\ ~msg.done
    /\ msg' = [msg EXCEPT !.done = TRUE]
    /\ IF e.kind = "relay"
       THEN /\ BBegin(c, c, NULL, e.chan, FALSE)
            /\ rpc' = [rpc EXCEPT ![c] = "relay"]
            /\ relayed' = [chan |-> e.chan, text |-> e.text]
            /\ UNCHANGED outbox
       ELSE /\ outbox' = IF e.kind = "none" THEN outbox
                         ELSE Append(outbox, [to |-> e.to, ctcp |-> e.ctcp,
                                              data |-> e.data])
            /\ UNCHANGED <<plock, bc, rpc, relayed>>
    /\ UNCHANGED <<clients, clientsLock, unloading, cstate, conn, head>>
    /\ UNCHANGED <<partVars, sessVars, cancelReq, treg, modVars, ghostVars>>
    /\ UNCHANGED <<readbuf, mybuf, mylen, start, res, prevbuf, prevlen, lpc, stream,
                   stream0, dispatched, first, execVars, cfgVars, thrVars>>

\* The server has sent one message of RouteMessages and the relay thread has
\* parsed it.
RouteInit ==
    /\ StartedWith({"open"})
    /\ msg \in RouteMessages
    /\ relayed = NoRelay
    /\ outbox = <<>>

NextRoute ==
    \E c \in Clients : RdrRoute(c) \/ RdrBcastVisit(c) \/ RdrBcastWrite(c)
                         \/ RdrBcastEnd(c)

SpecRoute == RouteInit /\ [][NextRoute]_vars

\* ================================================================ claims

\* Some __chat_send call is traversing the participants of client c.
Traversing(c) == \E t \in Senders : bc[t].st = "go" /\ bc[t].client = c

\* Client c was released by unload_module (start_clients releases only
\* clients that never got a relay thread).
ReleasedByUnload(c) == c \in Clients /\ cstate[c] = "freed" /\ rpc[c] # "none"

\* Node s has run the door and is back from leave_client.
Returned(s) == pc[s] = "idle" /\ pstate[s] = "freed"

\* ---- C1
\* C1: whatever a broadcast has pushed onto the pipe of a participant was not
\* sent by that participant, and when the broadcast named a channel it is the
\* participant's channel, exactly.
C1_BroadcastFilter ==
    \A p \in Sessions : \A i \in 1..Len(queue[p]) :
        /\ queue[p][i].snd # p
        /\ queue[p][i].chan # "" => pchan[p] = queue[p][i].chan

\* A line typed by one node on a channel sits in the pipe of another node,
\* while a third party of the call (the sender itself) is attached too.
C1_Witness ==
    \E p \in Sessions : \E i \in 1..Len(queue[p]) :
        /\ queue[p][i].snd \in Sessions \ {p}
        /\ queue[p][i].chan # ""
        /\ queue[p][i].part = "txt"
        /\ queue[p][i].snd \in Members(pclient[p])

\* ---- C2
\* A terminated line: a body of letters, then CR LF, that fits the buffer.
IsLine(st) ==
    /\ Len(st) >= 3 /\ Len(st) <= ReadBufLen
    /\ st[Len(st) - 1] = CR /\ st[Len(st)] = LF
    /\ \A i \in 1..(Len(st) - 2) : st[i] \notin {CR, LF}

\* C2: when the server has sent one terminated line and the reader has read
\* all of it, in however many reads, exactly that line has been dispatched.
C2_SplitLineDispatchedOnce ==
    (IsLine(stream0) /\ stream = <<>> /\ lpc \in {"wait", "stopped"})
        => dispatched = <<stream0>>

\* ---- C3
\* C3: once unload_module has been called it returns, every node is out of
\* the door and the clients list is empty (or the process has died).
C3_UnloadCompletes ==
    (upc = "lock") ~>
        (crashed \/ (upc = "done" /\ clients = <<>> /\ \A s \in Sessions : pc[s] = "idle"))

\* ---- C4
\* C4: the connection of a client is destroyed and the client is freed only
\* when its relay thread, if it has one, has ended; and the relay thread is
\* never about to use a destroyed connection or a freed client.
C4_ReaderEndsBeforeRelease ==
    \A c \in Clients :
        /\ Released(c) => rpc[c] \in {"none", "exited"}
        /\ ~RdrFaults(c)

\* ---- C5
\* C5: no node enters __chat_send (read lock of the participants taken,
\* text sent to IRC, pipes written) on a client unload_module has released.
C5_NoSessionOpOnReleased ==
    [][\A s \in Sessions :
        (bc[s].st = "off" /\ bc'[s].st = "go") => ~ReleasedByUnload(bc'[s].client)
      ]_vars

\* ---- C6
\* C6: a node that is not inside irc_client_exec does not hold the lock of
\* the clients list.
C6_JoinLeavesLockFree ==
    \A s \in Sessions : pc[s] = "idle" => clientsLock # s

\* ---- C7
\* C7: a client whose connection is not up has no participants.
C7_NoConnectionNoParticipants ==
    \A c \in Clients : conn[c] # "up" => head[c] = NULL

\* ---- C8
\* C8: no participant is removed from a list or freed twice, a node back
\* from leave_client has had its participant removed once and freed once, and
\* a leave_client that finds unloading set changes no participants list.
C8_DetachedAndFreedOnce ==
    /\ [](\A s \in Sessions :
            /\ detachCnt[s] <= 1 /\ freeCnt[s] <= 1
            /\ Returned(s) => (detachCnt[s] = 1 /\ freeCnt[s] = 1))
    /\ [][\A s \in Sessions :
            (pc[s] = "leave" /\ pc'[s] = "idle" /\ unloading)
                => (head' = head /\ nxt' = nxt)]_vars

\* ---- C9
\* C9: unloading is never cleared, and once it is set no step creates a
\* participant, a pipe or a list entry.
C9_NoJoinAfterUnloading ==
    [][unloading =>
        /\ unloading'
        /\ \A s \in Sessions :
            /\ pstate'[s] = "live" => pstate[s] = "live"
            /\ wfd'[s] = "open" => wfd[s] = "open"
            /\ rfd'[s] = "open" => rfd[s] = "open"
        /\ \A c \in Clients : Members(c)' \subseteq Members(c)
      ]_vars

\* unload_module has returned and a node has since run the door: its
\* join_client came back without a participant.
C9_Witness ==
    /\ unloading /\ upc = "done"
    /\ \E s, q \in Sessions :
        /\ clientsLock = s /\ pc[s] = "idle" /\ pstate[s] # "live"
        /\ q # s /\ detachCnt[q] = 1 /\ ReleasedByUnload(pclient[q])

\* ---- C10
\* C10: while a __chat_send call traverses the participants of a client, no
\* step changes that list.
C10_NoChangeWhileTraversing ==
    [][\A c \in Clients :
        Traversing(c) =>
            /\ head'[c] = head[c]
            /\ \A q \in Members(c) : nxt'[q] = nxt[q]
      ]_vars

\* ---- C11
\* C11: within a __chat_send call in which some write has been attempted,
\* when the traversal moves past a participant that passes the sender and
\* channel filters and whose own pipe accepts writes, that step has pushed the
\* text onto its pipe, whatever happened to the participants before it.
C11_FailureSkipsOnlyThatOne ==
    [][\A t \in Senders :
        LET q == bc[t].cur IN
        (/\ bc[t].st = "go" /\ q # NULL
         /\ bc[t].res # "uninit"
         /\ bc'[t].st = "go" /\ bc'[t].ph = "visit" /\ bc'[t].cur = nxt[q]
         /\ Passes(t, q) /\ wfd[q] = "open")
            => queue'[q] = Append(queue[q], Item("txt", t))
      ]_vars

\* ---- C12
\* The participant on whose full pipe thread t is blocked in write(), or NULL.
BlockedOn(t) ==
    IF AtWrite(t) /\ wfd[bc[t].cur] = "open" /\ Len(queue[bc[t].cur]) = MaxQueue
    THEN bc[t].cur ELSE NULL

\* C12: no set of nodes is blocked inside __chat_send, each in a write() on
\* the full pipe of a node of the set (the only reader of a pipe is its node,
\* so none of them could ever proceed, nor could a leave_client waiting for
\* the participants lock they hold).
C12_BroadcastNeverBlocksOnIO ==
    \A D \in SUBSET Sessions :
        D # {} => \E s \in D : BlockedOn(s) \notin D

C14_OutboundBeforeLocal ==
    [][\A t \in Senders :
        (bc[t].st = "go" /\ bc[t].relay) =>
            /\ bc[t].sent
            /\ bc'[t].st = "go" => bc'[t].sent = bc[t].sent
      ]_vars

\* A node's broadcast, sent to IRC, has pushed its text onto the pipe of a
\* participant and is still traversing.
C14_Witness ==
    \E t \in Sessions, p \in Sessions :
        /\ bc[t].st = "go" /\ bc[t].relay /\ bc[t].sent
        /\ bc[t].cur # p
        /\ \E i \in 1..Len(queue[p]) : queue[p][i] = Item("txt", t)

\* ---- C15
\* C15: while the module stays loaded a connection is destroyed only by
\* start_clients, for a client that failed to connect or log in. Such a
\* client never has a relay thread, is out of the clients list and freed, its
\* name is not found by join_client, and no node becomes its participant.
C15_FailedClientDropped ==
    /\ [](\A c \in Clients : conn[c] = "destroyed" =>
            /\ rpc[c] = "none" /\ treg[c] = "none"
            /\ cstate[c] = "freed"
            /\ \A i \in 1..Len(clients) : clients[i] # c
            /\ \A name \in JoinNames :
                StrCaseEq(ClientName(c), name) => FindClient(name) = NULL)
    /\ [][\A c \in Clients, s \in Sessions :
            (conn[c] = "destroyed" /\ pstate[s] # "live" /\ pstate'[s] = "live")
                => pclient'[s] # c]_vars

\* start_clients has dropped a client and returned, and a node has since run
\* the door: its join_client found no client (and came back with the lock).
C15_Witness ==
    \E c \in Clients, s \in Sessions :
        /\ conn[c] = "destroyed" /\ spc = "done"
        /\ pc[s] = "idle" /\ clientsLock = s

\* ---- C16
\* C16: when start_clients has returned it has visited every client of the
\* list and does not hold the lock of the clients list.
C16_StartVisitsAllAndUnlocks ==
    spc \in {"done", "failed"} =>
        /\ clientsLock # "start"
        /\ \A i \in 1..Len(clients) : conn[clients[i]] = "up" => rpc[clients[i]] # "none"

\* ---- C17, C18, C19
\* The body is extended data with the verb v: 0x01, v, then the end, a space
\* and the argument, or the closing 0x01.
IsCtcp(b, v) ==
    /\ Len(b) >= 2 /\ b[1] = SOH /\ b[2] = v
    /\ Len(b) >= 3 => b[3] \in {SP, SOH}

\* The argument of an extended-data body: what stands between the space
\* after the verb and the closing 0x01 (or the end); NullStr without a space.
CtcpArg(b) ==
    IF Len(b) >= 3 /\ b[3] = SP
    THEN LET stops == {i \in 4..Len(b) : b[i] = SOH}
             end == IF stops = {} THEN Len(b) + 1
                    ELSE CHOOSE i \in stops : \A j \in stops : i <= j
         IN SubSeq(b, 4, end - 1)
    ELSE NullStr

\* Nothing has been relayed to the local participants.
NothingRelayed ==
    /\ relayed = NoRelay
    /\ \A p \in Sessions : queue[p] = <<>>
    /\ \A c \in Clients : bc[c].st = "off"

\* ---- C17
\* C17: a PRIVMSG whose body is a CTCP VERSION, PING or TIME request pushes
\* nothing onto any pipe, and once handled exactly one reply of that verb has
\* been sent to the nickname of the prefix, for PING with the argument that
\* was received.
C17_CtcpRequestAnswered ==
    \A v \in {"VERSION", "PING", "TIME"} :
        (msg.command = "PRIVMSG" /\ IsCtcp(msg.body, v)) =>
            /\ NothingRelayed
            /\ ~msg.done => outbox = <<>>
            /\ msg.done =>
                /\ Len(outbox) = 1
                /\ outbox[1].to = <<"n">>
                /\ outbox[1].ctcp = v
                /\ v = "PING" => outbox[1].data = CtcpArg(msg.body)

\* A PING request with data from nick!user has been answered while a
\* participant is attached on the channel it was sent to.
C17_Witness ==
    /\ msg.done /\ msg.command = "PRIVMSG"
    /\ msg.prefix = <<"n", BANG, "u">>
    /\ msg.body = <<SOH, "PING", SP, "x", SOH>>
    /\ Len(outbox) = 1 /\ outbox[1].data = <<"x">>
    /\ \E p \in Sessions : pstate[p] = "live" /\ pchan[p] = msg.chan

\* ---- C18
\* C18: once a PRIVMSG for a channel whose body is a CTCP ACTION with a text
\* has been handled and its broadcast has ended, the line relayed was
\* "[ACTION] <nick> text" for that channel, every participant of that channel
\* has the line in its pipe, no other participant has anything, and nothing
\* was sent to the server.
C18_ActionRelayed ==
    (/\ msg.command = "PRIVMSG" /\ IsCtcp(msg.body, "ACTION")
     /\ CtcpArg(msg.body) \notin {NullStr, <<>>}
     /\ msg.done /\ \A c \in Clients : bc[c].st = "off")
        => /\ relayed = [chan |-> msg.chan,
                         text |-> <<"[ACTION] <", "n", "> ">> \o CtcpArg(msg.body)
                                     \o <<"\n">>]
           /\ outbox = <<>>
           /\ \A p \in Sessions :
                IF pstate[p] = "live" /\ pchan[p] = msg.chan
                THEN \E i \in 1..Len(queue[p]) :
                        queue[p][i] = [part |-> "txt", snd |-> NULL, chan |-> msg.chan]
                ELSE queue[p] = <<>>

\* ---- C19
\* C19: a NOTICE whose body is extended data, whatever its verb, sends
\* nothing to the server and relays nothing to the local participants.
C19_CtcpNoticeIgnored ==
    (msg.command = "NOTICE" /\ msg.body # <<>> /\ msg.body[1] = SOH) =>
        /\ outbox = <<>>
        /\ NothingRelayed

\* A NOTICE carrying a PING with data has been handled while a participant
\* is attached on the channel it was sent to.
C19_Witness ==
    /\ msg.done /\ msg.command = "NOTICE"
    /\ msg.body = <<SOH, "PING", SP, "x", SOH>>
    /\ \E p \in Sessions : pstate[p] = "live" /\ pchan[p] = msg.chan

\* ---- C20
\* C20: when irc_client_exec has returned, the value is 0 if the user typed
\* /quit, the pipe reached end-of-stream or the join was refused; it is
\* negative only after an I/O failure; and it is never positive.
C20_ExecReturnValue ==
    xpc = "returned" =>
        /\ xwhy \in {"quit", "eof", "refused"} => xret = 0
        /\ xret < 0 => xwhy = "io"
        /\ xret <= 0

\* ---- C21
\* C21: a node enters the chat_send of "has left" while its participant is
\* still in the participants of its client, and when leave_client has
\* returned the participant is in no participants list.
C21_AnnouncedBeforeDetached ==
    [][\A s \in Sessions :
        /\ (pc'[s] = "bye" /\ bc[s].st = "off" /\ bc'[s].st = "go")
                => s \in Members(pclient[s])
        /\ (pc[s] \in {"leave", "detach"} /\ pc'[s] = "idle")
                => \A c \in Clients : s \notin Members(c)'
      ]_vars

\* ---- C22
\* C22: when load_config has returned, no two clients of the list have names
\* that join_client takes for equal (equal but for the case).
C22_OneClientPerName ==
    ldpc = "done" => \A n \in SectionNames : Cardinality(Named(n)) <= 1

\* ---- C23
\* C23: whatever message irc_parse_msg hands over, handle_irc_msg returns and
\* the process lives on.
C23_DispatchNeverAborts == ~crashed

\* ---- C24
\* The bytes of a line that are not its terminator.
Letters == Bytes \ {CR, LF}

\* st is one terminated line that does not fit the buffer.
Oversized(st) ==
    /\ Len(st) > ReadBufLen
    /\ st[Len(st) - 1] = CR /\ st[Len(st)] = LF
    /\ \A i \in 1..(Len(st) - 2) : st[i] \in Letters

\* C24: when the server sends one line that does not fit readbuf, no string
\* handed to irc_parse_msg holds a byte of the text of that line.
C24_OversizedLineDropped ==
    Oversized(stream0) =>
        \A i \in 1..Len(dispatched) : \A k \in 1..Len(dispatched[i]) :
            dispatched[i][k] \notin Letters

\* ---- C28
\* The text of a dispatched string: irc_parse_msg is handed the line with
\* its CR (and, for the last line of a read, its LF).
Text(line) == SelectSeq(line, LAMBDA x : x \in Letters)

\* st is two terminated lines with texts l1 and l2.
TwoLines(st, l1, l2) == st = l1 \o <<CR, LF>> \o l2 \o <<CR, LF>>

\* C28: the server sends two lines and the first irc_read returns the whole
\* first line and a part of the second. The first line is dispatched, nothing
\* more is dispatched before the rest of the second line has been read, and
\* when all is read exactly the two lines have been dispatched, in order.
C28_LinesThenFragment ==
    \A l1, l2 \in [1..1 -> Letters] :
        (TwoLines(stream0, l1, l2) /\ first > Len(l1) + 2 /\ first < Len(stream0)
            /\ lpc \in {"wait", "stopped"})
        => /\ Len(dispatched) >= 1 /\ Text(dispatched[1]) = l1
           /\ stream # <<>> => Len(dispatched) = 1
           /\ stream = <<>> => /\ Len(dispatched) = 2
                               /\ Text(dispatched[2]) = l2

\* ---- C25
\* C25: __bbs_pthread_join on a thread that create_thread has spawned as
\* joinable returns only when the thread has ended, and returns 0.
C25_JoinWaitsForThread ==
    \A t \in Threads :
        (jpc[t] = "done" /\ ~tdet[t]) => (jret[t] = 0 /\ tpos[t] = "exited")

RequestsRegistry(t) == t \in Sessions /\ pc[t] \in {"idle", "leave"}

\* C27: no thread that holds the lock of a participants list is at a call
\* that locks the clients list.
C27_RegistryLockFirst ==
    \A t \in Senders : \A c \in Clients :
        t \in plock[c] => ~RequestsRegistry(t)

\* A node waits for the lock of the clients list, held by another thread,
\* while a third party is inside __chat_send with the participants locked.
C27_Witness ==
    \E s \in Sessions : \E c \in Clients :
        /\ pc[s] = "leave" /\ clientsLock \notin {NULL, s}
        /\ plock[c] # {}

\* ---- C29
\* The body of a PRIVMSG / NOTICE is plain text, not extended data.
PlainBody(b) == b = <<>> \/ b[1] # SOH

\* C29: once a PRIVMSG or NOTICE with a plain body has been handled and its
\* broadcast has ended, the line relayed was "<nick> text" for the channel of
\* the message, every participant of that channel has the line in its pipe
\* and no other participant has anything.
C29_TextRelayedToChannel ==
    (/\ msg.command \in TextCommands /\ PlainBody(msg.body)
     /\ msg.done /\ \A c \in Clients : bc[c].st = "off")
        => /\ relayed = [chan |-> msg.chan,
                         text |-> <<"<", "n", "> ">> \o msg.body \o <<"\n">>]
           /\ \A p \in Sessions :
                IF pstate[p] = "live" /\ pchan[p] = msg.chan
                THEN \E i \in 1..Len(queue[p]) :
                        queue[p][i] = [part |-> "txt", snd |-> NULL, chan |-> msg.chan]
                ELSE queue[p] = <<>>

\* ---- C30
\* C30: every __chat_send call of a relay thread has sender NULL and
\* dorelay 0 and sends nothing to the channel, and all the relay thread sends
\* to the server is a PONG or a CTCP reply, one at most per message.
C30_NothingSentBack ==
    /\ \A c \in Clients :
        bc[c].st = "go" => (bc[c].snd = NULL /\ ~bc[c].relay /\ ~bc[c].sent)
    /\ Len(outbox) <= 1
    /\ \A i \in 1..Len(outbox) : outbox[i].ctcp \in {"PONG", "VERSION", "PING", "TIME"}

\* The relay thread is in the middle of relaying a PRIVMSG from the network:
\* a participant has the line in its pipe and another is still to be visited.
C30_Witness ==
    \E c \in Clients :
        /\ msg.command = "PRIVMSG" /\ msg.done
        /\ bc[c].st = "go" /\ bc[c].cur # NULL
        /\ \E p \in Sessions : queue[p] # <<>>

\* ---- C31
\* The payload of a PING: its body without the leading colon, if it has one.
Payload(b) == IF b = NullStr THEN <<>> ELSE IF b[1] = COLON THEN Tail(b) ELSE b

\* C31: a PING pushes nothing onto any pipe, and once it is handled exactly
\* one PONG has been sent to the server, with the payload of the PING.
C31_PingAnswered ==
    (msg.command = "PING" /\ msg.numeric = 0) =>
        /\ NothingRelayed
        /\ msg.done =>
            /\ Len(outbox) = 1
            /\ outbox[1].ctcp = "PONG"
            /\ outbox[1].data = Payload(msg.body)

\* ---- C32
\* C32: once a JOIN, PART, QUIT or KICK for a channel has been handled and
\* its broadcast has ended, it was not logged as an unhandled command and
\* every participant of that channel has the announcement in its pipe (the
\* legacy terminals left aside: what they miss is the subject of C11).
C32_PresenceRelayed ==
    (/\ msg.numeric = 0 /\ msg.command \in {"JOIN", "PART", "QUIT", "KICK"}
     /\ msg.done /\ \A c \in Clients : bc[c].st = "off")
        => /\ ~Unhandled(msg)
           /\ \A p \in Sessions \ Tdd :
                (pstate[p] = "live" /\ pchan[p] = msg.chan)
                    => \E i \in 1..Len(queue[p]) :
                        queue[p][i] = [part |-> "txt", snd |-> NULL, chan |-> msg.chan]

\* ---- C33
\* C33: once a NICK has been handled and its broadcast has ended, every
\* participant attached to the client has the announcement in its pipe,
\* whatever its channel, and the pipes of the other nodes are empty.
C33_NickRelayedToAll ==
    (/\ msg.numeric = 0 /\ msg.command = "NICK"
     /\ msg.done /\ \A c \in Clients : bc[c].st = "off")
        => \A p \in Sessions :
            IF pstate[p] = "live"
            THEN \E i \in 1..Len(queue[p]) : queue[p][i].part = "txt"
            ELSE queue[p] = <<>>

\* ---- C34
\* C34: a message with a numeric, whatever its command, a MODE, ERROR or
\* TOPIC, and a command handle_irc_msg does not know push nothing onto any
\* pipe and send nothing to the server.
C34_IgnoredChangesNothing ==
    (msg.numeric # 0 \/ msg.command \in {"MODE", "ERROR", "TOPIC"} \/ Unhandled(msg))
        => (NothingRelayed /\ outbox = <<>>)

\* A message with a numeric and the command PING has been handled while a
\* participant is attached.
C34_Witness ==
    /\ msg.done /\ msg.numeric # 0 /\ msg.command = "PING"
    /\ \E p \in Sessions : pstate[p] = "live" /\ pchan[p] = msg.chan

\* ---- C35
\* C35: in every pipe a timestamp is followed by the text of the same
\* __chat_send call, or by nothing yet.
C35_TimestampThenOwnText ==
    \A p \in Sessions : \A i \in 1..(Len(queue[p]) - 1) :
        queue[p][i].part = "ts"
            => queue[p][i + 1] = [queue[p][i] EXCEPT !.part = "txt"]

\* ---- C36
\* C36: the participant whose channel a broadcast is about to compare with
\* the message's channel (line 513) has its channel set.
C36_FilterSeesChannel ==
    \A t \in DOMAIN bc :
        (/\ bc[t].st = "go" /\ bc[t].ph = "visit"
         /\ bc[t].cur \notin {NULL, bc[t].snd}
         /\ bc[t].chan # "")
            => pchan[bc[t].cur] # NULL

\* ---- C37
\* C37: a participant that has been freed has neither end of its pipe open.
C37_ReleasedWithBothEndsClosed ==
    \A s \in Sessions :
        pstate[s] = "freed" => wfd[s] = "closed" /\ rfd[s] = "closed"

\* ---- C38
\* C38: the loop of participant_relay is left only after /quit, after a
\* failure or after the end of one of its two sources, never after a wait
\* that timed out.
C38_LoopEndsOnQuitOrSourceEnd ==
    [][(xpc \in {"poll", "key", "line", "pipe"} /\ xpc' = "returned")
            => xwhy' \in {"quit", "io", "hangup", "eof"}]_vars

\* ---- C39
\* C39: when irc_read is about to be called mybuf + mylen is the capacity of
\* readbuf less the terminator, start is not behind mybuf and mylen is at
\* least 1; the string shifted to the start of the buffer ends inside the
\* buffer, and so does the "\r\n" that ends a line.
C39_ReadStaysInBuffer ==
    /\ lpc = "wait" =>
        /\ 0 <= start /\ start <= mybuf
        /\ mybuf + mylen = ReadBufLen
        /\ mylen >= 1
    /\ (lpc = "top" /\ mylen <= 1) =>
        \E i \in start..ReadBufLen : At(readbuf, i) = NUL
    /\ (lpc = "scan" /\ StrStr(readbuf, mybuf) # -1) =>
        StrStr(readbuf, mybuf) + 2 <= ReadBufLen

\* A read is about to append to a fragment that was shifted to the start of
\* the buffer after a line had been dispatched.
C39_Witness ==
    /\ lpc = "wait" /\ stream # <<>>
    /\ start = 0 /\ mybuf > 0 /\ mylen < ReadBufLen
    /\ dispatched # <<>>

====
